---- MODULE Spec2Model ----
(***************************************************************************)
(* A model of pyC3D: the processor-aware binary reader                     *)
(* (binaryFileReader.py), the C3D loader and its query API (c3dFile.py)    *)
(* and the document objects (_internals.py).                               *)
(*                                                                         *)
(* A file is a byte string.  It is kept as its length plus the bytes of    *)
(* its 512-byte blocks (a block's unlisted tail is zero), so that the      *)
(* decoder below works on bytes and offsets exactly as the code does.      *)
(* Python values are modelled as follows: an int is an integer, a float is *)
(* the record Flt(m, e) standing for m * 2^e (normalised), a str is the    *)
(* sequence of its character codes, and a parameter value is a tagged      *)
(* record (see StrV, ListV, IntV, Flt).                                    *)
(***************************************************************************)
EXTENDS Integers, Sequences, FiniteSets, TLC

VARIABLES
    file,           \* the bytes on disk of the path given to loadFile
    pc,             \* where loadFile stands: idle, header, params, markers,
                    \* spawn, join, close, loaded, failed
    err,            \* the exception loadFile ended with ("none" if none)
    handle,         \* BinaryFileReader._handle: none, open, closed
    pos,            \* the handle's position
    processorType,  \* BinaryFileReader._processorType
    header,         \* C3DFile._header
    parameters,     \* C3DFile._parameters
    markers,        \* C3DFile._markers
    data,           \* _readMarkers' decoded sample buffer
    threads,        \* _readMarkers' worker threads: new, running, done
    joined,         \* how many threads the main thread has joined
    bulkReads,      \* how many bulk reads of the data block this load made
    lastOp          \* the last API call and what it returned

vars == <<file, pc, err, handle, pos, processorType, header, parameters,
          markers, data, threads, joined, bulkReads, lastOp>>

(***************************************************************************)
(* Small helpers.                                                          *)
(***************************************************************************)
Min(a, b) == IF a < b THEN a ELSE b

Abs(n) == IF n < 0 THEN -n ELSE n

Reverse(s) == [i \in 1..Len(s) |-> s[Len(s) + 1 - i]]

RECURSIVE Pow2(_)
Pow2(k) == IF k <= 0 THEN 1 ELSE 2 * Pow2(k - 1)

(***************************************************************************)
(* Python values.                                                          *)
(***************************************************************************)
None == [k |-> "none"]

RECURSIVE Norm(_, _)
Norm(m, e) ==
    IF m = 0 THEN [k |-> "float", sp |-> "fin", m |-> 0, e |-> 0]
    ELSE IF m % 2 = 0 THEN Norm(m \div 2, e + 1)
    ELSE [k |-> "float", sp |-> "fin", m |-> m, e |-> e]

Flt(m, e) == Norm(m, e)

FltInf(neg) == [k |-> "float", sp |-> IF neg THEN "-inf" ELSE "inf", m |-> 0, e |-> 0]

FltNaN == [k |-> "float", sp |-> "nan", m |-> 0, e |-> 0]

IntV(n) == [k |-> "int", v |-> n]

StrV(s) == [k |-> "str", v |-> s]

ListV(s) == [k |-> "list", v |-> s]

(***************************************************************************)
(* consts.py                                                               *)
(***************************************************************************)
\* a processor type that was never set, or set to None
Unset == "None"

INTEL == "Intel"

DEC == "DEC"

MIPS == "MIPS"

\* DataTypes.<T>.size
TypeSize(dataType) == IF dataType = "h" THEN 2 ELSE 4

(***************************************************************************)
(* The file as bytes.                                                      *)
(***************************************************************************)
BlockSize == 512

ByteAt(f, off) ==
    LET b == (off \div BlockSize) + 1
        i == (off % BlockSize) + 1
    IN  IF b <= Len(f.blocks) /\ i <= Len(f.blocks[b]) THEN f.blocks[b][i] ELSE 0

\* handle.read(length) raises ValueError for a length below -1
ReadRefused(length) == length < -1

\* handle.read(length) at position p: the bytes actually there; the length -1
\* reads to the end of the file.
ReadBytes(f, p, length) ==
    LET avail == IF p >= f.len THEN 0 ELSE f.len - p
        n     == IF length < 0 THEN avail ELSE Min(length, avail)
    IN  [i \in 1..n |-> ByteAt(f, p + i - 1)]

(***************************************************************************)
(* struct.unpack                                                           *)
(***************************************************************************)
Signed8(b) == IF b < 128 THEN b ELSE b - 256

\* "<h", "<l", "<f" on exactly TypeSize bytes
UnpackLE(dataType, d) ==
    IF dataType = "h" THEN d[1] + 256 * Signed8(d[2])
    ELSE IF dataType = "l"
         THEN d[1] + 256 * d[2] + 65536 * d[3] + 16777216 * Signed8(d[4])
    ELSE LET neg  == d[4] >= 128
             ex   == (d[4] % 128) * 2 + (d[3] \div 128)
             frac == (d[3] % 128) * 65536 + d[2] * 256 + d[1]
             sgn  == IF neg THEN -1 ELSE 1
         IN  IF ex = 255 THEN (IF frac = 0 THEN FltInf(neg) ELSE FltNaN)
             ELSE IF ex = 0 THEN Flt(sgn * frac, -149)
             ELSE Flt(sgn * (8388608 + frac), ex - 150)

\* ">h", ">l", ">f"
UnpackBE(dataType, d) == UnpackLE(dataType, Reverse(d))

StructError == "struct.error"

\* The outcome of a read: the value or the exception raised, and where the
\* handle stands afterwards.
Ok(v) == [ok |-> TRUE, val |-> v, err |-> "none"]

Fail(e) == [ok |-> FALSE, val |-> None, err |-> e]

At(r, p) == [ok |-> r.ok, val |-> r.val, err |-> r.err, pos |-> p]

(***************************************************************************)
(* BinaryFileReader._readBasedOnProcessorType (functools.cache keeps it a  *)
(* function of its three arguments).                                       *)
(***************************************************************************)
\* a changed rotation: the last byte moved to the front
RotateRight(d) == SubSeq(d, Len(d), Len(d)) \o SubSeq(d, 1, Len(d) - 1)

\* data[1:] + data[:1]
RotateLeft(d) == SubSeq(d, 2, Len(d)) \o SubSeq(d, 1, 1)

\* a changed last branch: an unrecognised type is decoded as little-endian
DefaultDecoded(d, dataType) ==
    IF Len(d) = TypeSize(dataType) THEN Ok(UnpackLE(dataType, d))
    ELSE Fail(StructError)

\* the last branch: raise ValueError("Unsupported processor type")
Unsupported(d, dataType) == Fail("UnsupportedProcessorType")

ReadBasedOnProcessorType(d, dataType, procType) ==
    IF procType = INTEL \/ procType = Unset
    THEN IF Len(d) = TypeSize(dataType) THEN Ok(UnpackLE(dataType, d))
         ELSE Fail(StructError)
    ELSE IF procType = DEC
    THEN IF Len(d) = TypeSize(dataType) THEN Ok(UnpackBE(dataType, Reverse(d)))
         ELSE Fail(StructError)
    ELSE IF procType = MIPS
    THEN IF Len(d) = TypeSize(dataType)
         THEN Ok(UnpackLE(dataType, RotateLeft(d)))
         ELSE Fail(StructError)
    ELSE Unsupported(d, dataType)

(***************************************************************************)
(* BinaryFileReader's reads, at position p of file f.                      *)
(***************************************************************************)
\* seek(seekPos): a negative position is refused by the operating system
SeekFails(seekPos) == seekPos < 0

\* readByte: struct.unpack('b', read(1))
ReadByte(f, p) ==
    LET d == ReadBytes(f, p, 1)
    IN  At(IF Len(d) = 1 THEN Ok(Signed8(d[1])) ELSE Fail(StructError), p + Len(d))

\* readUnsignedByte: struct.unpack('B', read(1))
ReadUnsignedByte(f, p) ==
    LET d == ReadBytes(f, p, 1)
    IN  At(IF Len(d) = 1 THEN Ok(d[1]) ELSE Fail(StructError), p + Len(d))

\* readInt, readLong, readFloat
ReadScalar(f, p, dataType, procType) ==
    LET d == ReadBytes(f, p, TypeSize(dataType))
    IN  At(ReadBasedOnProcessorType(d, dataType, procType), p + Len(d))

ReadInt(f, p, procType) == ReadScalar(f, p, "h", procType)

ReadLong(f, p, procType) == ReadScalar(f, p, "l", procType)

ReadFloat(f, p, procType) == ReadScalar(f, p, "f", procType)

(***************************************************************************)
(* _internals.Header                                                       *)
(***************************************************************************)
NewHeader ==
    [parameterBlock |-> 0, markerCount |-> 0, analogMesasurements |-> 0,
     firstFrame |-> 0, lastFrame |-> 0, maxFrameGap |-> 0,
     scaleFactor |-> Flt(0, 0), dataStart |-> 0, sampleRate |-> 0,
     frameRate |-> Flt(0, 0), paramaterBlockCount |-> 0,
     processorType |-> Unset]

(***************************************************************************)
(* C3DFile._readProcessorType                                              *)
(***************************************************************************)
c3dFileKeyValue == 80

\* a changed table: a byte that is not in it gives a type of its own
ProcessorOrOther(b) ==
    IF b = 84 THEN INTEL
    ELSE IF b = 85 THEN DEC
    ELSE IF b = 86 THEN MIPS
    ELSE "Other"

ProcessorOfByte(b) ==
    IF b = 84 THEN INTEL
    ELSE IF b = 85 THEN DEC
    ELSE IF b = 86 THEN MIPS
    ELSE Unset

(***************************************************************************)
(* C3DFile._readHeader.  The result is the header as far as it was         *)
(* assigned, the reader's processor type and position, and the exception   *)
(* raised, if any.                                                         *)
(***************************************************************************)
\* words 2..12, in the order they are read
HeaderFields ==
    << <<"markerCount", "h">>, <<"analogMesasurements", "h">>,
       <<"firstFrame", "h">>, <<"lastFrame", "h">>, <<"maxFrameGap", "h">>,
       <<"scaleFactor", "f">>, <<"dataStart", "h">>, <<"sampleRate", "h">>,
       <<"frameRate", "f">> >>

\* what a read sequence goes on with: K of the value read, or the failure
Then(r, K(_)) == IF r.ok THEN K(r) ELSE r

\* the value read, wrapped by F
Map(r, F(_)) == IF r.ok THEN At(Ok(F(r.val)), r.pos) ELSE r

HdrOut(h, procType, p, e) == [header |-> h, proc |-> procType, pos |-> p, err |-> e]

\* the header after a read sequence that set nothing more
HdrFail(h, procType, r) == HdrOut(h, procType, r.pos, r.err)

RECURSIVE ReadHeaderFields(_, _, _, _, _)
ReadHeaderFields(f, h, p, procType, i) ==
    IF i > Len(HeaderFields) THEN HdrOut(h, procType, p, "none")
    ELSE LET Field(r) ==
                 IF ~r.ok THEN HdrFail(h, procType, r)
                 ELSE ReadHeaderFields(f, [h EXCEPT ![HeaderFields[i][1]] = r.val],
                                       r.pos, procType, i + 1)
         IN  Field(ReadScalar(f, p, HeaderFields[i][2], procType))

\* three readByte() whose value is dropped, then the byte after them
SkipThreeReadByte(f, p) ==
    Then(ReadByte(f, p), LAMBDA r1 :
    Then(ReadByte(f, r1.pos), LAMBDA r2 :
    Then(ReadByte(f, r2.pos), LAMBDA r3 :
    ReadByte(f, r3.pos))))

ReadHeader(f, h0, proc0) ==
    LET AfterKey(h2, newProc, key) ==
            IF ~key.ok THEN HdrFail(h2, newProc, key)
            ELSE IF key.val # c3dFileKeyValue
            THEN HdrOut(h2, newProc, key.pos, "InvalidFormat")
            ELSE ReadHeaderFields(f, h2, key.pos, newProc, 1)
        AfterPeek(h1, curPos, pk) ==
            IF ~pk.ok THEN HdrFail(h1, proc0, pk)
            ELSE AfterKey([h1 EXCEPT !.processorType = ProcessorOfByte(pk.val)],
                          ProcessorOfByte(pk.val), ReadByte(f, curPos))
        AfterPointer(r0) ==
            IF ~r0.ok THEN HdrFail(h0, proc0, r0)
            ELSE IF SeekFails((r0.val - 1) * BlockSize)
            THEN HdrOut([h0 EXCEPT !.parameterBlock = r0.val], proc0, r0.pos,
                        "OSError")
            ELSE AfterPeek([h0 EXCEPT !.parameterBlock = r0.val], r0.pos,
                           SkipThreeReadByte(f, (r0.val - 1) * BlockSize))
    IN  AfterPointer(ReadByte(f, 0))

(***************************************************************************)
(* bytes.decode(): UTF-8, strict.  The result is the sequence of code      *)
(* points, or a failure (UnicodeDecodeError).                              *)
(***************************************************************************)
IsCont(d, i) == i <= Len(d) /\ d[i] >= 128 /\ d[i] <= 191

RECURSIVE Utf8(_, _, _)
Utf8(d, i, acc) ==
    IF i > Len(d) THEN Ok(acc)
    ELSE LET b == d[i]
         IN  IF b < 128 THEN Utf8(d, i + 1, Append(acc, b))
             ELSE IF b >= 194 /\ b <= 223 /\ IsCont(d, i + 1)
             THEN Utf8(d, i + 2, Append(acc, (b - 192) * 64 + (d[i + 1] - 128)))
             ELSE IF /\ b >= 224 /\ b <= 239
                     /\ IsCont(d, i + 1) /\ IsCont(d, i + 2)
                     /\ (b = 224 => d[i + 1] >= 160)
                     /\ (b = 237 => d[i + 1] <= 159)
             THEN Utf8(d, i + 3, Append(acc, (b - 224) * 4096
                                    + (d[i + 1] - 128) * 64 + (d[i + 2] - 128)))
             ELSE IF /\ b >= 240 /\ b <= 244
                     /\ IsCont(d, i + 1) /\ IsCont(d, i + 2) /\ IsCont(d, i + 3)
                     /\ (b = 240 => d[i + 1] >= 144)
                     /\ (b = 244 => d[i + 1] <= 143)
             THEN Utf8(d, i + 4, Append(acc, (b - 240) * 262144
                                    + (d[i + 1] - 128) * 4096
                                    + (d[i + 2] - 128) * 64 + (d[i + 3] - 128)))
             ELSE Fail("UnicodeDecodeError")

Decode(d) == Utf8(d, 1, <<>>)

\* readStringFromByte(length)
ReadStringFromByte(f, p, length) ==
    IF ReadRefused(length) THEN At(Fail("ValueError"), p)
    ELSE LET d == ReadBytes(f, p, length)
         IN  At(Decode(d), p + Len(d))

\* str.isspace() of one character
IsSpace(c) ==
    \/ c \in 9..13 \/ c \in 28..32 \/ c = 133 \/ c = 160 \/ c = 5760
    \/ c \in 8192..8202 \/ c \in {8232, 8233, 8239, 8287, 12288}

RECURSIVE LStrip(_)
LStrip(s) == IF s # <<>> /\ IsSpace(Head(s)) THEN LStrip(Tail(s)) ELSE s

\* str.strip()
Strip(s) == Reverse(LStrip(Reverse(LStrip(s))))

(***************************************************************************)
(* _internals.ParameterDataTypes                                           *)
(***************************************************************************)
TString == -1

TByte == 1

TInterger == 2

TFloatingPoint == 4

\* getTypeFromData of something that is not a list
ScalarType(x) ==
    IF x.k = "str" THEN Ok(TString)
    ELSE IF x.k = "int" THEN Ok(IF x.v < 255 THEN TByte ELSE TInterger)
    ELSE IF x.k = "float" THEN Ok(TFloatingPoint)
    ELSE Fail("ValueError")

GetTypeFromData(x) ==
    IF x.k = "list"
    THEN IF /\ \E i \in 1..Len(x.v) : x.v[i].k = "int"
            /\ \E i \in 1..Len(x.v) : x.v[i].k = "float"
         THEN Ok(TFloatingPoint)
         ELSE IF Len(x.v) = 0 THEN Fail("ValueError")
         ELSE ScalarType(x.v[1])
    ELSE ScalarType(x)

DataTypeCheck(x, inputType) ==
    LET expected == GetTypeFromData(x)
    IN  IF ~expected.ok THEN FALSE
        ELSE IF expected.val = TByte /\ inputType = TInterger THEN TRUE
        ELSE expected.val = inputType

(***************************************************************************)
(* _internals.Parameter and ParameterGroup.  A data type or a value that   *)
(* is not set is None.                                                     *)
(***************************************************************************)
NewParameter(name) == [name |-> name, dataType |-> None, data |-> None]

\* Parameter.setDataType
SetDataType(prm, newValue) ==
    IF prm.data # None /\ ~DataTypeCheck(prm.data, newValue)
    THEN [ok |-> FALSE, prm |-> prm, err |-> "ValueError"]
    ELSE [ok |-> TRUE, prm |-> [prm EXCEPT !.dataType = IntV(newValue)], err |-> "none"]

\* a changed setData: the value is assigned before it is checked
SetDataUnchecked(prm, newData) ==
    IF prm.dataType = None
    THEN [ok |-> FALSE, prm |-> prm, err |-> "ValueError"]
    ELSE [ok |-> DataTypeCheck(newData, prm.dataType.v),
          prm |-> [prm EXCEPT !.data = newData],
          err |-> IF DataTypeCheck(newData, prm.dataType.v) THEN "none"
                  ELSE "ValueError"]

\* Parameter.setData
SetData(prm, newData) ==
    IF prm.dataType = None
    THEN [ok |-> FALSE, prm |-> prm, err |-> "ValueError"]
    ELSE IF ~DataTypeCheck(newData, prm.dataType.v)
    THEN [ok |-> FALSE, prm |-> prm, err |-> "ValueError"]
    ELSE [ok |-> TRUE, prm |-> [prm EXCEPT !.data = newData], err |-> "none"]

\* a changed constructor: the id is kept as it is on disk
SignedParameterGroup(name, groupId) ==
    [name |-> name, groupId |-> groupId, locked |-> groupId > 0,
     description |-> <<>>, params |-> <<>>]

\* ParameterGroup.__init__
NewParameterGroup(name, groupId) ==
    [name |-> name, groupId |-> Abs(groupId), locked |-> groupId > 0,
     description |-> <<>>, params |-> <<>>]

\* the index of the first element of s with that name, 0 if there is none
RECURSIVE FirstNamed(_, _, _)
FirstNamed(s, name, i) ==
    IF i > Len(s) THEN 0
    ELSE IF s[i].name = name THEN i
    ELSE FirstNamed(s, name, i + 1)

\* ParameterGroup.getParameter: the parameter, or None
GetParameterOf(group, name) ==
    LET i == FirstNamed(group.params, name, 1)
    IN  IF i = 0 THEN None ELSE group.params[i]

\* C3DFile.getParameterGroup: the index of the group (0 for None)
GetParameterGroup(params, name) == FirstNamed(params, name, 1)

\* C3DFile.getParameterByGroupId: the index of the group (0 for None)
RECURSIVE FirstWithId(_, _, _)
FirstWithId(params, gid, i) ==
    IF i > Len(params) THEN 0
    ELSE IF params[i].groupId = gid THEN i
    ELSE FirstWithId(params, gid, i + 1)

GetParameterByGroupId(params, groupId) == FirstWithId(params, Abs(groupId), 1)

(***************************************************************************)
(* C3DFile._readPropertyValue                                              *)
(***************************************************************************)
ReadPropertyValue(f, p, propertyType, procType) ==
    IF propertyType = -1
    THEN Then(ReadByte(f, p), LAMBDA n :
              Map(ReadStringFromByte(f, n.pos, n.val), StrV))
    ELSE IF propertyType = 1 THEN Map(ReadByte(f, p), IntV)
    ELSE IF propertyType = 2 THEN Map(ReadInt(f, p, procType), IntV)
    ELSE IF propertyType = 4 THEN ReadFloat(f, p, procType)
    ELSE At(Fail("UnknownDataType"), p)

\* value = []; for _ in range(n): value.append(_readPropertyValue(...))
RECURSIVE ReadPropertyValues(_, _, _, _, _, _)
ReadPropertyValues(f, p, propertyType, procType, n, acc) ==
    IF n <= 0 THEN At(Ok(ListV(acc)), p)
    ELSE Then(ReadPropertyValue(f, p, propertyType, procType), LAMBDA r :
              ReadPropertyValues(f, r.pos, propertyType, procType, n - 1,
                                 Append(acc, r.val)))

\* "UNABLE TO READ VALUE"
UnableToReadValue ==
    <<85, 78, 65, 66, 76, 69, 32, 84, 79, 32, 82, 69, 65, 68, 32, 86, 65, 76, 85, 69>>

\* a changed loop: a string that cannot be read ends the record's decoding
RECURSIVE ReadStringArrayUncaught(_, _, _, _, _)
ReadStringArrayUncaught(f, p, stringSize, n, acc) ==
    IF n <= 0 THEN At(Ok(ListV(acc)), p)
    ELSE Then(ReadStringFromByte(f, p, stringSize), LAMBDA r :
              ReadStringArrayUncaught(f, r.pos, stringSize, n - 1,
                                      Append(acc, StrV(Strip(r.val)))))

\* for _ in range(n): try: value.append(readStringFromByte(size).strip())
\*                     except: value = ["UNABLE TO READ VALUE"]
RECURSIVE ReadStringArray(_, _, _, _, _)
ReadStringArray(f, p, stringSize, n, acc) ==
    IF n <= 0 THEN At(Ok(ListV(acc)), p)
    ELSE LET Item(r) ==
                 ReadStringArray(f, r.pos, stringSize, n - 1,
                     IF r.ok THEN Append(acc, StrV(Strip(r.val)))
                     ELSE <<StrV(UnableToReadValue)>>)
         IN  Item(ReadStringFromByte(f, p, stringSize))

StrippedStr(str) == StrV(Strip(str))

\* the value of a parameter record whose type and dimension bytes were read
ReadParameterValue(f, p, dataType, dataDimensions, procType) ==
    IF dataType = -1
    THEN Then(ReadByte(f, p), LAMBDA sz :
              IF dataDimensions > 1
              THEN Then(ReadUnsignedByte(f, sz.pos), LAMBDA n :
                        ReadStringArray(f, n.pos, sz.val, n.val,
                            IF n.val = 0 THEN <<StrV(<<>>)>> ELSE <<>>))
              ELSE Map(ReadStringFromByte(f, sz.pos, sz.val), StrippedStr))
    ELSE IF dataDimensions = 0
    THEN ReadPropertyValue(f, p, dataType, procType)
    ELSE ReadPropertyValues(f, p, dataType, procType, dataDimensions, <<>>)

(***************************************************************************)
(* C3DFile._readDescription                                                *)
(***************************************************************************)
ReadDescription(f, p) ==
    Then(ReadByte(f, p), LAMBDA n :
         IF n.val = 0 THEN At(Ok(<<>>), n.pos)
         ELSE ReadStringFromByte(f, n.pos, n.val))

(***************************************************************************)
(* C3DFile._readParamBlock: one record of the parameter block.  The result *)
(* is the groups afterwards, the handle's position, whether the walk goes  *)
(* on (the method's return value) and the exception raised, if any.        *)
(***************************************************************************)
BlkOut(params, p, more, e) == [params |-> params, pos |-> p, more |-> more, err |-> e]

\* K of the value read, or the exception raised with the groups as they are
ThenBlk(r, params, K(_)) ==
    IF r.ok THEN K(r) ELSE BlkOut(params, r.pos, FALSE, r.err)

\* parameter.setDataType(dataType); parameter.setData(value); handle.seek(...)
\* on parameter k of group g, the value v having been read
StoreParameter(params, g, k, dataType, v, seekTo) ==
    LET Valued(valued) ==
            IF ~valued.ok
            THEN BlkOut([params EXCEPT ![g].params[k] = valued.prm], v.pos,
                        FALSE, valued.err)
            ELSE IF SeekFails(seekTo)
            THEN BlkOut([params EXCEPT ![g].params[k] = valued.prm], v.pos,
                        FALSE, "OSError")
            ELSE BlkOut([params EXCEPT ![g].params[k] = valued.prm], seekTo,
                        TRUE, "none")
        Typed(typed) ==
            IF ~typed.ok THEN BlkOut(params, v.pos, FALSE, typed.err)
            ELSE Valued(SetData(typed.prm, v.val))
    IN  Typed(SetDataType(params[g].params[k], dataType))

\* the parameter branch: the group exists, at index g; added are the groups
\* after parameterGroup.addNewProperty(groupName)
ReadParameterRecord(f, p, procType, added, g, seekTo) ==
    ThenBlk(ReadByte(f, p), added, LAMBDA dt :
    ThenBlk(ReadByte(f, dt.pos), added, LAMBDA dd :
    ThenBlk(ReadParameterValue(f, dd.pos, dt.val, dd.val, procType), added,
            LAMBDA v :
    StoreParameter(added, g, Len(added[g].params), dt.val, v, seekTo))))

\* ParameterGroup.addNewProperty
AddNewProperty(params, g, name) ==
    [params EXCEPT ![g].params = Append(@, NewParameter(name))]

\* the group branch: _newParam
NewParam(f, p, params, name, groupId) ==
    ThenBlk(ReadDescription(f, p), params, LAMBDA d :
    BlkOut(Append(params, [NewParameterGroup(name, groupId)
                             EXCEPT !.description = d.val]),
           d.pos, TRUE, "none"))

\* a changed end test: no record ends the block
NeverEnds(n) == FALSE

\* "if nameLength == 0" and "if bytesToNextGroup == 0"
EndOfBlock(n) == n = 0

ReadParamBlock(f, p, procType, params) ==
    ThenBlk(ReadByte(f, p), params, LAMBDA nl :
    IF EndOfBlock(Abs(nl.val)) THEN BlkOut(params, nl.pos, FALSE, "none")
    ELSE
    ThenBlk(ReadByte(f, nl.pos), params, LAMBDA gid :
    ThenBlk(ReadStringFromByte(f, gid.pos, Abs(nl.val)), params, LAMBDA name :
    ThenBlk(ReadInt(f, name.pos, procType), params, LAMBDA next :
    IF EndOfBlock(next.val) THEN BlkOut(params, next.pos, FALSE, "none")
    ELSE IF GetParameterByGroupId(params, gid.val) = 0
    THEN NewParam(f, next.pos, params, name.val, gid.val)
    ELSE ReadParameterRecord(f, next.pos, procType,
             AddNewProperty(params, GetParameterByGroupId(params, gid.val),
                            name.val),
             GetParameterByGroupId(params, gid.val), name.pos + next.val)))))

(***************************************************************************)
(* C3DFile._readParameters up to its loop: the block's first four bytes.   *)
(***************************************************************************)
ReadParametersHead(f, h0, proc0) ==
    LET Proc(h1, r4) ==
            IF ~r4.ok THEN HdrFail(h1, proc0, r4)
            ELSE HdrOut([h1 EXCEPT !.processorType = ProcessorOfByte(r4.val)],
                        ProcessorOfByte(r4.val), r4.pos, "none")
        Count(r3) ==
            IF ~r3.ok THEN HdrFail(h0, proc0, r3)
            ELSE Proc([h0 EXCEPT !.paramaterBlockCount = r3.val],
                      ReadByte(f, r3.pos))
    IN  IF SeekFails((h0.parameterBlock - 1) * BlockSize)
        THEN HdrOut(h0, proc0, 0, "OSError")
        ELSE Count(Then(ReadByte(f, (h0.parameterBlock - 1) * BlockSize),
                        LAMBDA r1 : Then(ReadByte(f, r1.pos),
                        LAMBDA r2 : ReadByte(f, r2.pos))))

\* C3DFile.getMarkerCount
GetMarkerCount(h) == h.markerCount

(***************************************************************************)
(* Numbers of the sample buffer: an int is IntV(n), a float is Flt(m, e).  *)
(***************************************************************************)
\* x == 0
IsZero(x) ==
    IF x.k = "int" THEN x.v = 0 ELSE x.sp = "fin" /\ x.m = 0

\* x < 0
IsNegative(x) ==
    IF x.k = "int" THEN x.v < 0 ELSE x.sp = "-inf" \/ (x.sp = "fin" /\ x.m < 0)

\* a changed scaling: the integers read are kept as they are
Unscaled(n, x) == IntV(n)

\* n * x for an int n
Times(n, x) ==
    IF x.k = "int" THEN IntV(n * x.v)
    ELSE IF x.sp = "fin" THEN Flt(n * x.m, x.e)
    ELSE IF x.sp = "nan" \/ n = 0 THEN FltNaN
    ELSE FltInf((x.sp = "-inf") # (n < 0))

(***************************************************************************)
(* BinaryFileReader.bulkReadFloat and bulkReadInt: always little-endian.   *)
(***************************************************************************)
BulkRead(f, p, dataType, total) ==
    LET size == TypeSize(dataType)
        d    == ReadBytes(f, p, size * total)
    IN  IF ReadRefused(size * total) THEN At(Fail("ValueError"), p)
        ELSE
        At(IF total >= 0 /\ Len(d) = size * total
           THEN Ok([i \in 1..total |->
                      LET v == UnpackLE(dataType,
                                        SubSeq(d, (i - 1) * size + 1, i * size))
                      IN  IF dataType = "f" THEN v ELSE IntV(v)])
           ELSE Fail(StructError),
           p + Len(d))

BulkReadFloat(f, p, total) == BulkRead(f, p, "f", total)

BulkReadInt(f, p, total) == BulkRead(f, p, "h", total)

(***************************************************************************)
(* _internals.Marker.  _data, a dict keyed by 0, 1, 2, ..., is the         *)
(* sequence of its values; a position is None or Vec of the slice given    *)
(* to _quickVec.                                                           *)
(***************************************************************************)
NewMarker(markerName) == [name |-> markerName, data |-> <<>>]

Vec(d) == [k |-> "vec", v |-> d]

\* Marker.getPosition: _data.get(frameNumber)
GetPosition(marker, frameNumber) ==
    IF frameNumber >= 0 /\ frameNumber < Len(marker.data)
    THEN marker.data[frameNumber + 1]
    ELSE None

\* a changed conversion: an all-zero sample is a zero vector
ZeroVec(d) == Vec(d)

\* C3DFile._quickVec
QuickVec(d) ==
    IF IsZero(d[1]) /\ IsZero(d[2]) /\ IsZero(d[3]) THEN None ELSE Vec(d)

\* a changed slice: the markers of a frame are taken three words apart
ProcessMarkerDataPacked(buf, markerIdx, markerCount) ==
    [fr \in 1..(IF Len(buf) = 0 THEN 0
                ELSE (Len(buf) + markerCount * 4 - 1) \div (markerCount * 4)) |->
        QuickVec(SubSeq(buf, Min((fr - 1) * markerCount * 4 + markerIdx * 3, Len(buf)) + 1,
                        Min((fr - 1) * markerCount * 4 + markerIdx * 3 + 4, Len(buf))))]

\* C3DFile.processMarkerData: the dict it assigns to marker._data
ProcessMarkerData(buf, markerIdx, markerCount) ==
    LET frames == IF Len(buf) = 0 THEN 0
                  ELSE (Len(buf) + markerCount * 4 - 1) \div (markerCount * 4)
    IN  [fr \in 1..frames |->
            LET idx  == (fr - 1) * markerCount * 4
                from == idx + markerIdx * 4
            IN  QuickVec(SubSeq(buf, Min(from, Len(buf)) + 1,
                                Min(from + 4, Len(buf))))]

(***************************************************************************)
(* C3DFile._readMarkers up to the start of its threads.                    *)
(***************************************************************************)
POINT == <<80, 79, 73, 78, 84>>

LABELS == <<76, 65, 66, 69, 76, 83>>

LABELS2 == <<76, 65, 66, 69, 76, 83, 50>>

SCALE == <<83, 67, 65, 76, 69>>

\* what "for markerName in prm.data()" goes through, or the TypeError
Iterate(x) ==
    IF x.k = "list" THEN Ok(x.v)
    ELSE IF x.k = "str" THEN Ok([i \in 1..Len(x.v) |-> StrV(<<x.v[i]>>)])
    ELSE Fail("TypeError")

NewMarkers(names) == [i \in 1..Len(names) |-> NewMarker(names[i])]

MrkOut(mk, buf, p, reads, started, e) ==
    [markers |-> mk, data |-> buf, pos |-> p, reads |-> reads,
     started |-> started, err |-> e]

\* from the seek to the data block on; mk are the markers just created
ReadSamples(f, p, h, group, mk) ==
    LET Reads(r) == IF r.err = "ValueError" THEN 0 ELSE 1
        Floats(r) ==
            IF ~r.ok THEN MrkOut(mk, <<>>, r.pos, Reads(r), FALSE, r.err)
            ELSE MrkOut(mk, r.val, r.pos, 1, TRUE, "none")
        Ints(r, pointScale) ==
            IF ~r.ok THEN MrkOut(mk, <<>>, r.pos, Reads(r), FALSE, r.err)
            ELSE MrkOut(mk, [i \in 1..Len(r.val) |-> Times(r.val[i].v, pointScale)],
                        r.pos, 1, TRUE, "none")
        Scaled(startOfDataBlock, scalePrm, numberOfDataPoints) ==
            IF scalePrm = None
            THEN MrkOut(mk, <<>>, startOfDataBlock, 0, FALSE, "AttributeError")
            ELSE IF scalePrm.data.k \notin {"int", "float"}
            THEN MrkOut(mk, <<>>, startOfDataBlock, 0, FALSE, "TypeError")
            ELSE IF IsNegative(scalePrm.data)
            THEN Floats(BulkReadFloat(f, startOfDataBlock, numberOfDataPoints))
            ELSE Ints(BulkReadInt(f, startOfDataBlock, numberOfDataPoints),
                      scalePrm.data)
    IN  IF SeekFails((h.dataStart - 1) * BlockSize)
        THEN MrkOut(mk, <<>>, p, 0, FALSE, "OSError")
        ELSE Scaled((h.dataStart - 1) * BlockSize, GetParameterOf(group, SCALE),
                    ((h.lastFrame - h.firstFrame) * GetMarkerCount(h)) * 4)

\* a changed count check: fewer markers than the header counts are let through
MarkerCountAtMost(mk, h) == Len(mk) <= GetMarkerCount(h)

\* the check len(self._markers) != self.getMarkerCount(), passed
MarkerCountMatches(mk, h) == Len(mk) = GetMarkerCount(h)

\* a changed early return: a file without labels is refused
LabelsRequired(mk0, p) == MrkOut(mk0, <<>>, p, 0, FALSE, "MarkerCountMismatch")

\* the early return of a file without a POINT group or without LABELS
NoMarkers(mk0, p) == MrkOut(mk0, <<>>, p, 0, FALSE, "none")

ReadMarkers(f, p, h, params, mk0) ==
    LET Counted(pointGroup, mk2) ==
            IF ~MarkerCountMatches(mk2, h)
            THEN MrkOut(mk2, <<>>, p, 0, FALSE, "MarkerCountMismatch")
            ELSE ReadSamples(f, p, h, pointGroup, mk2)
        Second(pointGroup, mk1, labels2) ==
            IF labels2 = None THEN Counted(pointGroup, mk1)
            ELSE IF ~Iterate(labels2.data).ok
            THEN MrkOut(mk1, <<>>, p, 0, FALSE, Iterate(labels2.data).err)
            ELSE Counted(pointGroup, mk1 \o NewMarkers(Iterate(labels2.data).val))
        First(pointGroup, labels) ==
            IF labels = None THEN NoMarkers(mk0, p)
            ELSE IF ~Iterate(labels.data).ok
            THEN MrkOut(mk0, <<>>, p, 0, FALSE, Iterate(labels.data).err)
            ELSE Second(pointGroup, mk0 \o NewMarkers(Iterate(labels.data).val),
                        GetParameterOf(pointGroup, LABELS2))
        Group(g) ==
            IF g = 0 THEN NoMarkers(mk0, p)
            ELSE First(params[g], GetParameterOf(params[g], LABELS))
    IN  Group(GetParameterGroup(params, POINT))

(***************************************************************************)
(* The files given to loadFile.  They are written here byte by byte, the   *)
(* way the format lays them out (spec section 6): a header block, a        *)
(* parameter block, a data block.  meta keeps what the file was written    *)
(* from; the decoder never reads it.                                       *)
(***************************************************************************)
MaxMarkers == 2

MaxLabels == 2

MaxFrames == 2

MaxRecords == 3

U8(n) == IF n < 0 THEN n + 256 ELSE n

LE16(n) == LET u == IF n < 0 THEN n + 65536 ELSE n IN <<u % 256, u \div 256>>

RECURSIVE Log2(_)
Log2(n) == IF n < 2 THEN 0 ELSE 1 + Log2(n \div 2)

\* the IEEE-754 single of the integer n, little-endian
F32(n) ==
    IF n = 0 THEN <<0, 0, 0, 0>>
    ELSE LET a    == Abs(n)
             k    == Log2(a)
             frac == (a - Pow2(k)) * Pow2(23 - k)
             ex   == 127 + k
         IN  <<frac % 256, (frac \div 256) % 256,
               (ex % 2) * 128 + (frac \div 65536),
               (IF n < 0 THEN 128 ELSE 0) + (ex \div 2)>>

\* a field's little-endian bytes d as a file of that processor type holds
\* them (spec section 4.1): DEC reversed, MIPS rotated right by one byte
Layout(procType, d) ==
    IF procType = DEC THEN Reverse(d)
    ELSE IF procType = MIPS THEN <<d[Len(d)]>> \o SubSeq(d, 1, Len(d) - 1)
    ELSE d

RECURSIVE Concat(_)
Concat(ss) == IF ss = <<>> THEN <<>> ELSE Head(ss) \o Concat(Tail(ss))

\* the header's words 1..12 (spec section 6)
HeaderBytes(fl, P, key, procType) ==
    <<U8(P), key>>
    \o Concat([i \in 1..Len(HeaderFields) |->
                 LET v == fl[HeaderFields[i][1]]
                 IN  Layout(procType,
                            IF HeaderFields[i][2] = "h" THEN LE16(v) ELSE F32(v))])

\* a group record with an empty description, a parameter record
GroupRecord(name, gid, procType) ==
    <<Len(name), U8(gid)>> \o name \o Layout(procType, LE16(3)) \o <<0>>

\* a group record followed by bytes that its offset to the next record skips
GapGroupRecord(name, gid, gap, procType) ==
    <<Len(name), U8(gid)>> \o name \o Layout(procType, LE16(3 + Len(gap)))
    \o <<0>> \o gap

\* a parameter record of one byte whose offset to the next record points
\* back at the record's own first byte
LoopRecord(name, gid, procType) ==
    <<Len(name), U8(gid)>> \o name \o Layout(procType, LE16(0 - (2 + Len(name))))
    \o <<1, 0, 5>>

\* the value bytes of a typed record: as floats 1.0 and 2.0, as 16-bit
\* integers 0, 16256, 0, 16384
TypedBytes == <<0, 0, 128, 63, 0, 0, 0, 64>>

ParamRecord(name, gid, body, procType) ==
    <<Len(name), U8(gid)>> \o name \o Layout(procType, LE16(Len(body) + 3))
    \o body \o <<0>>

Pad(str, w) == str \o [i \in 1..(w - Len(str)) |-> 32]

\* type String, two dimensions: the width, the count, the strings
StringArrayBody(strs, w) ==
    <<255, 2, w, Len(strs)>> \o Concat([i \in 1..Len(strs) |-> Pad(strs[i], w)])

\* type String, one dimension: the width, the string
StringBody(str) == <<255, 1, Len(str)>> \o str

FloatBody(n, procType) == <<4, 0>> \o Layout(procType, F32(n))

ByteBody(n) == <<1, 0, U8(n)>>

\* the name of the i-th marker: "A", "B", ...
MarkerName(i) == <<64 + i>>

Names(from, n) == [i \in 1..n |-> MarkerName(from + i - 1)]

\* a string that is not UTF-8
BadString == <<255>>

\* the parameter records of each kind of file
Records(kind, k1, k2, procType) ==
    LET point == GroupRecord(POINT, -1, procType)
        lab1  == ParamRecord(LABELS, 1, StringArrayBody(Names(1, k1), 2), procType)
        lab2  == ParamRecord(LABELS2, 1, StringArrayBody(Names(k1 + 1, k2), 2),
                             procType)
        float == ParamRecord(SCALE, 1, FloatBody(-1, procType), procType)
        int   == ParamRecord(SCALE, 1, FloatBody(2, procType), procType)
    IN  IF kind = "empty" THEN <<>>
        ELSE IF kind = "point" THEN point
        ELSE IF kind = "labels" THEN point \o lab1 \o float
        ELSE IF kind = "labels2" THEN point \o lab1 \o lab2 \o float
        ELSE IF kind = "scaled" THEN point \o lab1 \o int
        ELSE IF kind = "string"
        THEN point \o ParamRecord(LABELS, 1, StringBody(Concat(Names(1, k1))),
                                  procType) \o float
        ELSE IF kind = "number"
        THEN point \o ParamRecord(LABELS, 1, ByteBody(k1), procType) \o float
        ELSE IF kind = "noscale" THEN point \o lab1
        ELSE IF kind = "zeronext"
        THEN point \o lab1 \o <<1, 1, 88>> \o Layout(procType, LE16(0)) \o float
        ELSE IF kind = "locked"
        THEN GroupRecord(POINT, 1, procType)
             \o ParamRecord(LABELS, -1, StringArrayBody(Names(1, k1), 2), procType)
             \o ParamRecord(SCALE, -1, FloatBody(-1, procType), procType)
        ELSE IF kind = "typed"
        THEN \* a parameter of data type k1 and dimension count k2
             point \o ParamRecord(<<88>>, 1, <<U8(k1), U8(k2)>> \o TypedBytes, procType)
        ELSE IF kind = "loop" THEN point \o LoopRecord(<<88>>, 1, procType)
        ELSE IF kind = "gap"
        THEN GapGroupRecord(POINT, -1, <<0>>, procType) \o lab1 \o float
        ELSE IF kind = "badfirst"
        THEN point
             \o ParamRecord(LABELS, 1,
                    StringArrayBody(<<BadString>> \o Names(1, k1 - 1), 2), procType)
             \o float
        ELSE IF kind = "badlast"
        THEN point
             \o ParamRecord(LABELS, 1,
                    StringArrayBody(Names(1, k1 - 1) \o <<BadString>>, 2), procType)
             \o float
        ELSE \* "unknown": a parameter of data type 3
             point \o lab1 \o ParamRecord(<<88>>, 1, <<3, 0, 0, 0>>, procType)

ParameterBlock(recs, procByte) == <<0, 0, 1, procByte>> \o recs \o <<0, 0>>

\* the sample written for channel c of marker m in stored frame fr (all
\* from 0): x, y, z and a residual; some samples are all-zero in x, y, z
Sample(fr, m, c) ==
    IF c = 3 THEN 1
    ELSE IF (fr + m) % 3 = 2 THEN 0
    ELSE 1 + 12 * fr + 3 * m + c

\* frames stored frames of mc markers, as floats or as 16-bit integers
DataBlock(frames, mc, asFloat) ==
    Concat([i \in 1..(frames * mc * 4) |->
              LET fr == (i - 1) \div (mc * 4)
                  m  == ((i - 1) % (mc * 4)) \div 4
                  c  == (i - 1) % 4
              IN  IF asFloat THEN F32(Sample(fr, m, c))
                  ELSE LE16(Sample(fr, m, c))])

ProcByte(procType) ==
    IF procType = INTEL THEN 84
    ELSE IF procType = DEC THEN 85
    ELSE IF procType = MIPS THEN 86
    ELSE 0

NoFile == [exists |-> FALSE, len |-> 0, blocks |-> <<>>, meta |-> None]

MakeFile(fl, P, key, procType, kind, k1, k2, cut) ==
    LET frames == IF fl.lastFrame >= fl.firstFrame
                  THEN fl.lastFrame - fl.firstFrame + 1 ELSE 0
        blocks == << HeaderBytes(fl, P, key, procType),
                     ParameterBlock(Records(kind, k1, k2, procType),
                                    ProcByte(procType)),
                     DataBlock(frames, fl.markerCount, kind # "scaled") >>
        full   == 2 * BlockSize + Len(blocks[3])
    IN  [exists |-> TRUE,
         len    |-> IF cut < 0 THEN full ELSE Min(cut, full),
         blocks |-> blocks,
         meta   |-> [fields |-> fl, P |-> P, key |-> key, proc |-> procType,
                     kind |-> kind, k1 |-> k1, k2 |-> k2, frames |-> frames]]

\* the header words of a file with mc markers and frames ff..lf
Fields(mc, ff, lf) ==
    [markerCount |-> mc, analogMesasurements |-> 0, firstFrame |-> ff,
     lastFrame |-> lf, maxFrameGap |-> 10, scaleFactor |-> -1, dataStart |-> 3,
     sampleRate |-> 50, frameRate |-> 60]

ProcessorTypes == {INTEL, DEC, MIPS, Unset}

\* files whose header is what matters: every processor type, a good and a
\* bad key, a parameter-block pointer that is negative, zero, the header's
\* own block or the next one, and files cut short
HeaderFiles ==
    { MakeFile(Fields(1, 1, 2), P, key, procType, "empty", 0, 0, cut) :
        P \in {-1, 0, 1, 2}, key \in {80, 81}, procType \in ProcessorTypes,
        cut \in {-1, 1, 2, 20, 515} }

\* the parameter records of the files below: a kind and its label counts
ParameterSets ==
    {<<"empty", 0, 0>>, <<"point", 0, 0>>, <<"number", 1, 0>>, <<"unknown", 1, 0>>}
    \cup {<<kind, k1, 0>> : kind \in {"labels", "string"}, k1 \in 0..MaxLabels}
    \cup {<<kind, k1, 0>> : kind \in {"scaled", "noscale", "badfirst", "badlast"},
                             k1 \in 1..MaxLabels}
    \cup {<<"gap", 1, 0>>, <<"loop", 0, 0>>, <<"zeronext", 1, 0>>,
          <<"locked", 1, 0>>}
    \cup {<<"typed", t, d>> : t \in 1..4, d \in -1..2}
    \cup {<<"labels2", k1, 1>> : k1 \in 0..(MaxLabels - 1)}

\* the files whose load reaches the data block: their labels are as many as
\* the header counts markers, and their SCALE is there
Sampled(mc, ps) ==
    ps[1] \in {"labels", "labels2", "scaled", "string"} /\ ps[2] + ps[3] = mc

\* Intel files with parameters and samples, whole or cut in the data block;
\* the frame range and the cut vary where the load gets to the samples
MarkerFiles ==
    { MakeFile(Fields(c[1], c[2], c[3]), 2, 80, INTEL, c[4][1], c[4][2], c[4][3],
               c[5]) :
        c \in { d \in (0..MaxMarkers) \X {0, 1} \X (0..(MaxFrames + 1))
                       \X ParameterSets \X {-1, 2 * BlockSize + 6} :
                   Sampled(d[1], d[4]) \/ (d[2] = 1 /\ d[3] = 2 /\ d[5] = -1) } }

\* a file that ends with its last parameter record, the group POINT
EndingFiles ==
    { MakeFile(Fields(1, 1, 2), 2, 80, INTEL, "point", 0, 0,
               BlockSize + 4 + Len(GroupRecord(POINT, -1, INTEL))) }

\* files with parameters and samples whose processor byte is in no table
UnsetFiles ==
    { MakeFile(Fields(1, 1, 2), 2, 80, Unset, ps[1], ps[2], ps[3], -1) :
        ps \in {<<"labels", 1, 0>>, <<"typed", 2, 2>>} }

Files == {NoFile} \cup HeaderFiles \cup MarkerFiles \cup EndingFiles \cup UnsetFiles

\* the frame numbers asked of readFrame
FrameNumbers == -1..(MaxFrames + 2)

(***************************************************************************)
(* C3DFile.readFrame                                                       *)
(***************************************************************************)
\* a changed range check: the last frame is refused
FrameBeforeLast(h, frameNumber) ==
    ~(frameNumber < h.firstFrame \/ frameNumber >= h.lastFrame)

FrameInRange(h, frameNumber) ==
    ~(frameNumber < h.firstFrame \/ frameNumber > h.lastFrame)

ReadFrame(h, mk, frameNumber) ==
    IF ~FrameInRange(h, frameNumber) THEN Fail("FrameOutOfRange")
    ELSE Ok([i \in 1..Len(mk) |-> GetPosition(mk[i], frameNumber)])

(***************************************************************************)
(* The state machine: a C3DFile object, its loadFile call step by step,    *)
(* and the calls made on it between loads.                                 *)
(***************************************************************************)
\* the last call made: its name, argument and outcome (val holds the list
\* returned by readFrame, or the one value returned by a read of the reader)
NoOp == [op |-> "none", arg |-> 0, ok |-> TRUE, val |-> <<>>, err |-> "none"]

LoadOp == [op |-> "loadFile", arg |-> 0, ok |-> TRUE, val |-> <<>>, err |-> "none"]

Init ==
    /\ file = NoFile
    /\ pc = "idle"
    /\ err = "none"
    /\ handle = "none"
    /\ pos = 0
    /\ processorType = Unset
    /\ header = NewHeader
    /\ parameters = <<>>
    /\ markers = <<>>
    /\ data = <<>>
    /\ threads = <<>>
    /\ joined = 0
    /\ bulkReads = 0
    /\ lastOp = NoOp

\* no loadFile is running
Callable == pc \in {"idle", "loaded", "failed"}

\* loadFile raises e: nothing after the raise runs
Raise(e) == pc' = "failed" /\ err' = e

\* loadFile up to the construction of the reader (reset, os.path.exists,
\* BinaryFileReader.openFile)
LoadFile(f) ==
    /\ Callable
    /\ file' = f
    /\ header' = NewHeader
    /\ parameters' = <<>>
    /\ markers' = <<>>
    /\ lastOp' = LoadOp
    /\ IF f.exists
       THEN pc' = "header" /\ err' = "none" /\ handle' = "open"
       ELSE Raise("FileNotFoundError") /\ handle' = "none"
    /\ pos' = 0
    /\ processorType' = Unset
    /\ data' = <<>>
    /\ threads' = <<>>
    /\ joined' = 0
    /\ bulkReads' = 0

ReadHeaderStep ==
    /\ pc = "header"
    /\ LET r == ReadHeader(file, header, processorType)
       IN  /\ header' = r.header
           /\ processorType' = r.proc
           /\ pos' = r.pos
           /\ IF r.err = "none" THEN pc' = "params" /\ err' = err
              ELSE Raise(r.err)
    /\ UNCHANGED <<file, handle, parameters, markers, data, threads, joined,
                   bulkReads, lastOp>>

ReadParametersStep ==
    /\ pc = "params"
    /\ LET r == ReadParametersHead(file, header, processorType)
       IN  /\ header' = r.header
           /\ processorType' = r.proc
           /\ pos' = r.pos
           /\ IF r.err = "none" THEN pc' = "walk" /\ err' = err
              ELSE Raise(r.err)
    /\ UNCHANGED <<file, handle, parameters, markers, data, threads, joined,
                   bulkReads, lastOp>>

\* the records walked so far are not more than MaxRecords a group
WalkBounded(params) == \A g \in 1..Len(params) : Len(params[g].params) <= MaxRecords

ReadParamBlockStep ==
    /\ pc = "walk"
    /\ WalkBounded(parameters)
    /\ LET r == ReadParamBlock(file, pos, processorType, parameters)
       IN  /\ parameters' = r.params
           /\ pos' = r.pos
           /\ IF r.err # "none" THEN Raise(r.err)
              ELSE /\ pc' = IF r.more THEN "walk" ELSE "markers"
                   /\ err' = err
    /\ UNCHANGED <<file, handle, processorType, header, markers, data, threads,
                   joined, bulkReads, lastOp>>

ReadMarkersStep ==
    /\ pc = "markers"
    /\ LET r == ReadMarkers(file, pos, header, parameters, markers)
       IN  /\ markers' = r.markers
           /\ data' = r.data
           /\ pos' = r.pos
           /\ bulkReads' = r.reads
           /\ IF r.err # "none" THEN Raise(r.err)
              ELSE /\ err' = err
                   /\ pc' = IF ~r.started THEN "close"
                            ELSE IF r.markers = <<>> THEN "join"
                            ELSE "spawn"
    /\ UNCHANGED <<file, handle, processorType, header, parameters, threads,
                   joined, lastOp>>

\* thread.start() of the next marker's thread
StartThread ==
    /\ pc = "spawn"
    /\ threads' = Append(threads, "running")
    /\ pc' = IF Len(threads') = Len(markers) THEN "join" ELSE "spawn"
    /\ UNCHANGED <<file, err, handle, pos, processorType, header, parameters,
                   markers, data, joined, bulkReads, lastOp>>

\* the thread of marker i runs processMarkerData
Worker(i) ==
    /\ threads[i] = "running"
    /\ markers' = [markers EXCEPT
                     ![i].data = ProcessMarkerData(data, i - 1, GetMarkerCount(header))]
    /\ threads' = [threads EXCEPT ![i] = "done"]
    /\ UNCHANGED <<file, pc, err, handle, pos, processorType, header, parameters,
                   data, joined, bulkReads, lastOp>>

\* a changed join: it returns while the thread still runs
JoinsAtOnce(thread) == TRUE

\* thread.join() returns once the thread has finished
Joins(thread) == thread = "done"

\* thread.join() of the next thread returns
JoinThread ==
    /\ pc = "join"
    /\ joined < Len(threads)
    /\ Joins(threads[joined + 1])
    /\ joined' = joined + 1
    /\ UNCHANGED <<file, pc, err, handle, pos, processorType, header, parameters,
                   markers, data, threads, bulkReads, lastOp>>

\* _readMarkers returns after the last join
ReadMarkersReturn ==
    /\ pc = "join"
    /\ joined = Len(threads)
    /\ pc' = "close"
    /\ data' = <<>>
    /\ threads' = <<>>
    /\ joined' = 0
    /\ UNCHANGED <<file, err, handle, pos, processorType, header, parameters,
                   markers, bulkReads, lastOp>>

\* fileObj.closeFile(), the last statement of loadFile
CloseFile ==
    /\ pc = "close"
    /\ handle' = "closed"
    /\ pc' = "loaded"
    /\ UNCHANGED <<file, err, pos, processorType, header, parameters, markers,
                   data, threads, joined, bulkReads, lastOp>>

\* between loads: the object as loadFile left it, whether it returned or raised
ReadFrameCall(n) ==
    /\ Callable
    /\ LET r == ReadFrame(header, markers, n)
       IN  lastOp' = [op |-> "readFrame", arg |-> n, ok |-> r.ok,
                      val |-> IF r.ok THEN r.val ELSE <<>>, err |-> r.err]
    /\ UNCHANGED <<file, pc, err, handle, pos, processorType, header, parameters,
                   markers, data, threads, joined, bulkReads>>

\* reset(), as a call of its own or as the first statement of the next
\* loadFile; the reader of the load before is dropped with loadFile's frame
Reset ==
    /\ pc \in {"loaded", "failed"}
    /\ pc' = "idle"
    /\ header' = NewHeader
    /\ parameters' = <<>>
    /\ markers' = <<>>
    /\ file' = NoFile
    /\ err' = "none"
    /\ handle' = "none"
    /\ pos' = 0
    /\ processorType' = Unset
    /\ data' = <<>>
    /\ threads' = <<>>
    /\ joined' = 0
    /\ bulkReads' = 0
    /\ lastOp' = NoOp

Next ==
    \/ \E f \in Files : LoadFile(f)
    \/ ReadHeaderStep
    \/ ReadParametersStep
    \/ ReadParamBlockStep
    \/ ReadMarkersStep
    \/ StartThread
    \/ \E i \in 1..Len(threads) : Worker(i)
    \/ JoinThread
    \/ ReadMarkersReturn
    \/ CloseFile
    \/ \E n \in FrameNumbers : ReadFrameCall(n)
    \/ Reset

Spec == Init /\ [][Next]_vars

(***************************************************************************)
(* What the claims speak of.                                               *)
(***************************************************************************)
\* the POINT group's parameter of that name, None without group or parameter
PointParameter(params, name) ==
    IF GetParameterGroup(params, POINT) = 0 THEN None
    ELSE GetParameterOf(params[GetParameterGroup(params, POINT)], name)

HasLabels(params) == PointParameter(params, LABELS) # None

\* a parameter value that holds names: a string or an array of strings
IsNames(x) ==
    \/ x.k = "str"
    \/ x.k = "list" /\ \A i \in 1..Len(x.v) : x.v[i].k = "str"

\* the names a parameter holds: the strings of an array, or the one string
\* of a string value (an empty string is no name)
NamesOf(prm) ==
    IF prm = None THEN <<>>
    ELSE IF prm.data.k = "list" THEN prm.data.v
    ELSE IF prm.data.v = <<>> THEN <<>>
    ELSE <<prm.data>>

\* what iterating a parameter's value yields: the elements of an array, the
\* characters of a string
ElementsOf(prm) ==
    IF prm = None THEN <<>>
    ELSE IF prm.data.k = "list" THEN prm.data.v
    ELSE [i \in 1..Len(prm.data.v) |-> StrV(<<prm.data.v[i]>>)]

MarkerNames(mk) == [i \in 1..Len(mk) |-> mk[i].name]

\* the bytes of the data block hold the sample of marker m (from 0) in the
\* stored frame fr (from 0): its x, y, z as the SCALE parameter has them read
StoredSample(f, h, scale, fr, m) ==
    LET dataType == IF IsNegative(scale) THEN "f" ELSE "h"
        at == (h.dataStart - 1) * BlockSize
              + (fr * h.markerCount + m) * 4 * TypeSize(dataType)
        xyz == [c \in 1..3 |->
                  UnpackLE(dataType,
                           ReadBytes(f, at + (c - 1) * TypeSize(dataType),
                                     TypeSize(dataType)))]
    IN  IF dataType = "f" THEN xyz ELSE [c \in 1..3 |-> Times(xyz[c], scale)]

\* a position returned by readFrame is that sample
IsStoredPosition(position, xyz) ==
    IF IsZero(xyz[1]) /\ IsZero(xyz[2]) /\ IsZero(xyz[3]) THEN position = None
    ELSE position # None /\ SubSeq(position.v, 1, 3) = xyz

(***************************************************************************)
(* C1: after a successful load of a file whose POINT/LABELS name the       *)
(* markers, readFrame(n) with firstFrame <= n <= lastFrame returns, in     *)
(* label order, each marker's position stored in the data block at the     *)
(* (n - firstFrame)-th stored frame.                                       *)
(***************************************************************************)
C1_ReadFrameReturnsStoredFrame ==
    ( /\ pc = "loaded"
      /\ HasLabels(parameters)
      /\ lastOp.op = "readFrame"
      /\ header.firstFrame <= lastOp.arg /\ lastOp.arg <= header.lastFrame )
    => /\ lastOp.ok
       /\ Len(lastOp.val) = header.markerCount
       /\ \A m \in 1..Len(lastOp.val) :
             IsStoredPosition(lastOp.val[m],
                 StoredSample(file, header, PointParameter(parameters, SCALE).data,
                              lastOp.arg - header.firstFrame, m - 1))

(***************************************************************************)
(* C2: readFrame(n) fails with FrameOutOfRange exactly when n < firstFrame *)
(* or n > lastFrame; otherwise it returns one optional position per marker *)
(* in marker-list order; no call of it, failing or not, changes the        *)
(* header, the groups or the markers.                                      *)
(***************************************************************************)
C2_ReadFrameRange ==
    [][ lastOp'.op = "readFrame"
        => /\ (~lastOp'.ok) <=> ( \/ lastOp'.arg < header.firstFrame
                                  \/ lastOp'.arg > header.lastFrame )
           /\ ~lastOp'.ok => lastOp'.err = "FrameOutOfRange"
           /\ lastOp'.ok =>
                /\ Len(lastOp'.val) = Len(markers)
                /\ \A i \in 1..Len(markers) :
                      \/ lastOp'.val[i] = None
                      \/ \E fr \in 1..Len(markers[i].data) :
                            lastOp'.val[i] = markers[i].data[fr]
           /\ header' = header /\ parameters' = parameters /\ markers' = markers
      ]_vars

\* readFrame(lastFrame + 1) has failed on a loaded Document with markers
\* and decoded frames
C2_Witness ==
    /\ pc = "loaded" /\ markers # <<>>
    /\ header.firstFrame < header.lastFrame
    /\ lastOp.op = "readFrame" /\ lastOp.arg = header.lastFrame + 1
    /\ ~lastOp.ok /\ lastOp.err = "FrameOutOfRange"

(***************************************************************************)
(* C3: when the POINT group has a LABELS parameter, the load fails with    *)
(* MarkerCountMismatch whenever the number of names in LABELS followed by  *)
(* LABELS2 differs from Header.markerCount, and reads no sample data.      *)
(***************************************************************************)
C3_MismatchFails ==
    [][ ( /\ pc = "markers"
          /\ HasLabels(parameters)
          /\ IsNames(PointParameter(parameters, LABELS).data)
          /\ PointParameter(parameters, LABELS2) # None
                => IsNames(PointParameter(parameters, LABELS2).data)
          /\ Len(NamesOf(PointParameter(parameters, LABELS)))
               + Len(NamesOf(PointParameter(parameters, LABELS2)))
             # header.markerCount )
        => /\ pc' = "failed"
           /\ err' = "MarkerCountMismatch"
           /\ bulkReads' = 0
      ]_vars

C5_NoLabelsNoMarkers ==
    [][ (pc = "markers" /\ ~HasLabels(parameters))
        => /\ pc' = "close"
           /\ err' = "none"
           /\ markers' = <<>>
           /\ bulkReads' = 0
           /\ pos' = pos
      ]_vars

\* such a load has completed, of a file whose header counts markers
C5_Witness ==
    /\ pc = "loaded" /\ err = "none"
    /\ GetParameterGroup(parameters, POINT) # 0
    /\ ~HasLabels(parameters)
    /\ header.markerCount > 0
    /\ markers = <<>>

(***************************************************************************)
(* C6: whenever loadFile fails, the Document is not left partially         *)
(* populated: its marker list is empty and it exposes no parameter group   *)
(* of the failed file.                                                     *)
(***************************************************************************)
C6_FailedLoadLeavesNothing ==
    (pc = "failed" /\ lastOp.op = "loadFile") => markers = <<>> /\ parameters = <<>>

(***************************************************************************)
(* C7: every call of loadFile that opens the file ends with the file       *)
(* handle closed, whether it returns or raises.                            *)
(***************************************************************************)
C7_HandleClosedOnEveryExit ==
    (pc \in {"loaded", "failed"} /\ file.exists) => handle = "closed"

(***************************************************************************)
(* C8: loading a file whose byte at offset 1 is not 80 fails with          *)
(* InvalidFormat, whatever the pointer byte at offset 0 and the file's     *)
(* length, and no header field after the pointer is decoded.               *)
(***************************************************************************)
C8_BadKeyIsInvalidFormat ==
    ( /\ file.exists /\ file.len >= 2
      /\ ByteAt(file, 1) # c3dFileKeyValue
      /\ pc \notin {"idle", "header"} )
    => /\ pc = "failed"
       /\ err = "InvalidFormat"
       /\ \A i \in 1..Len(HeaderFields) :
             header[HeaderFields[i][1]] = NewHeader[HeaderFields[i][1]]

(***************************************************************************)
(* C9: header round trip.  A header whose nine fields are laid out from    *)
(* offset 2 in the byte layout of the file's processor type decodes to a   *)
(* Header whose fields equal the values written, for Intel, DEC and MIPS.  *)
(***************************************************************************)
\* the value a header field of the file was written from
Written(f, i) ==
    IF HeaderFields[i][2] = "h" THEN f.meta.fields[HeaderFields[i][1]]
    ELSE Flt(f.meta.fields[HeaderFields[i][1]], 0)

\* a whole file whose parameter block, with its processor byte, is block 2
WellFormed(f) ==
    /\ f.exists /\ f.meta.P = 2 /\ f.meta.key = c3dFileKeyValue
    /\ f.len >= 2 * BlockSize
    /\ f.meta.proc \in {INTEL, DEC, MIPS}

C9_HeaderRoundTrip ==
    (WellFormed(file) /\ pc \notin {"idle", "header"})
    => \A i \in 1..Len(HeaderFields) :
          header[HeaderFields[i][1]] = Written(file, i)

(***************************************************************************)
(* A BinaryFileReader on its own: a reader constructed without a path and  *)
(* the calls made on it.  The variables of the C3DFile stay as constructed.*)
(***************************************************************************)
MaxFileLen == 4

ByteValues == {0, 1, 128}

\* the files given to openFile: MaxFileLen bytes that repeat three bytes of
\* ByteValues
ReaderFiles ==
    { [exists |-> TRUE, len |-> MaxFileLen,
       blocks |-> << [i \in 1..MaxFileLen |-> t[((i - 1) % 3) + 1]] >>,
       meta |-> None] :
        t \in ByteValues \X ByteValues \X ByteValues }

\* the values given to setProcessorType: the three of consts.ProcessorTypes,
\* None, and a string that is none of them
ReaderProcessorTypes == ProcessorTypes \cup {"VAX"}

SeekPositions == {-1, 0, 1, 2}

ReaderOp(op, arg, r) ==
    [op |-> op, arg |-> arg, ok |-> r.ok, val |-> IF r.ok THEN r.val ELSE <<>>,
     err |-> r.err]

ReaderInit ==
    /\ file = NoFile
    /\ pc = "reader"
    /\ err = "none"
    /\ handle = "none"
    /\ pos = 0
    /\ processorType = Unset
    /\ header = NewHeader
    /\ parameters = <<>>
    /\ markers = <<>>
    /\ data = <<>>
    /\ threads = <<>>
    /\ joined = 0
    /\ bulkReads = 0
    /\ lastOp = NoOp

ReaderUnchanged ==
    UNCHANGED <<pc, err, header, parameters, markers, data, threads, joined,
                bulkReads>>

\* openFile(filePath) of a file that exists
OpenFile(f) ==
    /\ pc = "reader"
    /\ file' = f
    /\ handle' = "open"
    /\ pos' = 0
    /\ lastOp' = ReaderOp("openFile", 0, Ok(<<>>))
    /\ UNCHANGED processorType
    /\ ReaderUnchanged

\* closeFile()
ReaderCloseFile ==
    /\ pc = "reader"
    /\ handle' = IF handle = "none" THEN "none" ELSE "closed"
    /\ lastOp' = ReaderOp("closeFile", 0, Ok(<<>>))
    /\ UNCHANGED <<file, pos, processorType>>
    /\ ReaderUnchanged

\* seek(seekPos)
Seek(seekPos) ==
    /\ pc = "reader"
    /\ LET r == IF handle = "none" THEN Fail("IOError")
                ELSE IF handle = "closed" THEN Fail("ValueError")
                ELSE IF SeekFails(seekPos) THEN Fail("OSError")
                ELSE Ok(<<>>)
       IN  /\ lastOp' = ReaderOp("seek", seekPos, r)
           /\ pos' = IF r.ok THEN seekPos ELSE pos
    /\ UNCHANGED <<file, handle, processorType>>
    /\ ReaderUnchanged

\* setProcessorType(processorType)
SetProcessorType(t) ==
    /\ pc = "reader"
    /\ processorType' = t
    /\ lastOp' = ReaderOp("setProcessorType", 0, Ok(<<>>))
    /\ UNCHANGED <<file, handle, pos>>
    /\ ReaderUnchanged

\* readInt(), readLong(), readFloat(): readBytes, then the decoding
ReadCall(op, dataType) ==
    /\ pc = "reader"
    /\ LET r == IF handle = "none" THEN At(Fail("IOError"), pos)
                ELSE IF handle = "closed" THEN At(Fail("ValueError"), pos)
                ELSE ReadScalar(file, pos, dataType, processorType)
       IN  /\ lastOp' = ReaderOp(op, 0, IF r.ok THEN Ok(<<r.val>>) ELSE r)
           /\ pos' = r.pos
    /\ UNCHANGED <<file, handle, processorType>>
    /\ ReaderUnchanged

ReadIntCall == ReadCall("readInt", "h")

ReadLongCall == ReadCall("readLong", "l")

ReadFloatCall == ReadCall("readFloat", "f")

ReaderNext ==
    \/ \E f \in ReaderFiles : OpenFile(f)
    \/ ReaderCloseFile
    \/ \E p \in SeekPositions : Seek(p)
    \/ \E t \in ReaderProcessorTypes : SetProcessorType(t)
    \/ ReadIntCall
    \/ ReadLongCall
    \/ ReadFloatCall

SpecReader == ReaderInit /\ [][ReaderNext]_vars

\* the data type a read call decodes
TypeOfCall(op) ==
    IF op = "readInt" THEN "h" ELSE IF op = "readLong" THEN "l" ELSE "f"

\* the bytes the read call before this state has consumed
BytesRead ==
    ReadBytes(file, pos - TypeSize(TypeOfCall(lastOp.op)),
              TypeSize(TypeOfCall(lastOp.op)))

\* a readInt, readLong or readFloat has returned under processor type t
HasRead(t) ==
    /\ pc = "reader"
    /\ lastOp.op \in {"readInt", "readLong", "readFloat"}
    /\ lastOp.ok
    /\ processorType = t

(***************************************************************************)
(* C10: with processor type DEC, readInt/readLong/readFloat return the     *)
(* little-endian value of the field's bytes reversed; so whenever the      *)
(* field's bytes are not a palindrome and the two values differ, the DEC   *)
(* result is not the Intel result for the same bytes (16-bit bytes         *)
(* [b0, b1] decode to b1 + 256 * b0 as a signed value).                    *)
(***************************************************************************)
C10_DecReversesBytes ==
    HasRead(DEC)
    => lastOp.val[1] = UnpackLE(TypeOfCall(lastOp.op), Reverse(BytesRead))

(***************************************************************************)
(* C11: with processor type MIPS, readInt/readLong/readFloat return the    *)
(* little-endian value of the field's bytes with the first byte moved to   *)
(* the end; with Intel or an unset processor type they return the          *)
(* little-endian value of the bytes unchanged.  A 2-byte field [b0, b1]    *)
(* read as MIPS is the little-endian value of [b1, b0].                    *)
(***************************************************************************)
C11_MipsRotatesLeft ==
    /\ HasRead(MIPS)
       => /\ lastOp.val[1]
             = UnpackLE(TypeOfCall(lastOp.op),
                        Tail(BytesRead) \o <<Head(BytesRead)>>)
          /\ lastOp.op = "readInt"
             => lastOp.val[1] = UnpackLE("h", <<BytesRead[2], BytesRead[1]>>)
          /\ lastOp.op # "readInt"
             => lastOp.val[1]
                = UnpackLE(TypeOfCall(lastOp.op),
                           <<BytesRead[2], BytesRead[3], BytesRead[4], BytesRead[1]>>)
    /\ (HasRead(INTEL) \/ HasRead(Unset))
       => lastOp.val[1] = UnpackLE(TypeOfCall(lastOp.op), BytesRead)

\* readLong has returned under MIPS for four bytes that a rotation changes
C11_Witness ==
    /\ HasRead(MIPS)
    /\ lastOp.op = "readLong"
    /\ BytesRead # Tail(BytesRead) \o <<Head(BytesRead)>>
    /\ lastOp.val[1] # UnpackLE("l", BytesRead)

(***************************************************************************)
(* C12: while the reader's processor type is a value other than Intel,     *)
(* DEC, MIPS or unset, every readInt, readLong and readFloat on its open   *)
(* file fails with UnsupportedProcessorType; once a recognised type is set *)
(* again no read fails with it.                                            *)
(***************************************************************************)
C12_UnsupportedProcessorType ==
    ( /\ pc = "reader"
      /\ handle = "open"
      /\ lastOp.op \in {"readInt", "readLong", "readFloat"} )
    => /\ processorType \notin ProcessorTypes
          => ~lastOp.ok /\ lastOp.err = "UnsupportedProcessorType"
       /\ processorType \in ProcessorTypes
          => lastOp.err # "UnsupportedProcessorType"

\* a read of bytes that are all there has failed under an unrecognised type
C12_Witness ==
    /\ pc = "reader"
    /\ handle = "open"
    /\ lastOp.op = "readInt"
    /\ processorType \notin ProcessorTypes
    /\ pos = 2
    /\ ~lastOp.ok /\ lastOp.err = "UnsupportedProcessorType"

(***************************************************************************)
(* The record of the parameter block that the walker reads next.           *)
(***************************************************************************)
\* the position of the record's offset to the next record
RecordStart(f, p) == p + 2 + Abs(Signed8(ByteAt(f, p)))

BytesToNext(f, p, procType) == ReadInt(f, RecordStart(f, p), procType).val

\* the record at p is a parameter of a decoded group, of type String with
\* more than one dimension and at least one string
IsStringArrayRecord(f, p, procType, params) ==
    /\ Signed8(ByteAt(f, p)) # 0
    /\ BytesToNext(f, p, procType) # 0
    /\ GetParameterByGroupId(params, Signed8(ByteAt(f, p + 1))) # 0
    /\ Signed8(ByteAt(f, RecordStart(f, p) + 2)) = TString
    /\ Signed8(ByteAt(f, RecordStart(f, p) + 3)) > 1
    /\ ByteAt(f, RecordStart(f, p) + 5) > 0

\* the i-th string of that record, as readStringFromByte returns or fails
StringOfRecord(f, p, i) ==
    ReadStringFromByte(f, RecordStart(f, p) + 6
                          + (i - 1) * Signed8(ByteAt(f, RecordStart(f, p) + 4)),
                       Signed8(ByteAt(f, RecordStart(f, p) + 4)))

\* one of its strings cannot be decoded
SomeStringFails(f, p) ==
    \E i \in 1..ByteAt(f, RecordStart(f, p) + 5) : ~StringOfRecord(f, p, i).ok

\* the decoded group that the record belongs to
GroupOfRecord(params, f, p) ==
    GetParameterByGroupId(params, Signed8(ByteAt(f, p + 1)))

\* the parameter that the record's group got last
LastParameter(params, f, p) ==
    params[GroupOfRecord(params, f, p)]
        .params[Len(params[GroupOfRecord(params, f, p)].params)]

\* the groups with one more parameter in group g
WithParameter(params, g, prm) == [params EXCEPT ![g].params = Append(@, prm)]

(***************************************************************************)
(* C13: in the parameter walk, after every processed record, a group       *)
(* header or a parameter, the cursor is at recordStart + bytesToNext       *)
(* before the next record is read, recordStart being the position of the   *)
(* bytesToNext field.                                                      *)
(***************************************************************************)
C13_CursorAtNextRecord ==
    [][ (pc = "walk" /\ pc' = "walk")
        => pos' = RecordStart(file, pos) + BytesToNext(file, pos, processorType)
      ]_vars

(***************************************************************************)
(* C14: when one of the strings of a string-array parameter record cannot  *)
(* be decoded, the parameter's value is exactly the one-element sequence   *)
(* ["UNABLE TO READ VALUE"], whichever string failed.                      *)
(***************************************************************************)
C14_SentinelIsWholeValue ==
    [][ ( /\ pc = "walk" /\ pc' = "walk"
          /\ IsStringArrayRecord(file, pos, processorType, parameters)
          /\ SomeStringFails(file, pos) )
        => LastParameter(parameters', file, pos).data
           = ListV(<<StrV(UnableToReadValue)>>)
      ]_vars

(***************************************************************************)
(* C15: a string-array record with a string that cannot be decoded does    *)
(* not abort the load: the walker goes on at the next record, only that    *)
(* parameter is added to the groups decoded so far, and the records after  *)
(* it are decoded with the names, types and values they have in the file   *)
(* with the record intact.                                                 *)
(***************************************************************************)
\* the groups after the walk of f from p, of at most n records
RECURSIVE Walk(_, _, _, _, _)
Walk(f, p, procType, params, n) ==
    IF n = 0 THEN params
    ELSE LET Go(r) ==
                 IF r.err = "none" /\ r.more
                 THEN Walk(f, r.pos, procType, r.params, n - 1)
                 ELSE r.params
         IN  Go(ReadParamBlock(f, p, procType, params))

\* the file of the same header whose LABELS are all names
Intact(f) ==
    MakeFile(f.meta.fields, f.meta.P, f.meta.key, f.meta.proc, "labels",
             f.meta.k1, 0, -1)

\* the parameters of the POINT group after its first
AfterLabels(params) == Tail(params[GetParameterGroup(params, POINT)].params)

C15_WalkerGoesOn ==
    [][ /\ ( /\ pc = "walk"
             /\ IsStringArrayRecord(file, pos, processorType, parameters)
             /\ SomeStringFails(file, pos) )
           => /\ pc' = "walk" /\ err' = "none"
              /\ pos' = RecordStart(file, pos)
                        + BytesToNext(file, pos, processorType)
              /\ parameters'
                 = WithParameter(parameters, GroupOfRecord(parameters, file, pos),
                                 LastParameter(parameters', file, pos))
              /\ LastParameter(parameters', file, pos).dataType = IntV(TString)
        /\ ( /\ pc = "walk" /\ pc' = "markers"
             /\ file.meta.kind \in {"badfirst", "badlast"} )
           => AfterLabels(parameters')
              = AfterLabels(Walk(Intact(file),
                                 (header.parameterBlock - 1) * BlockSize + 4,
                                 processorType, <<>>, 4))
      ]_vars

\* the walk of a file whose first LABELS string cannot be decoded has gone
\* on to SCALE and ended
C15_Witness ==
    /\ pc = "markers"
    /\ file.exists /\ file.meta.kind = "badfirst" /\ file.meta.k1 = 2
    /\ Len(AfterLabels(parameters)) = 1
    /\ AfterLabels(parameters)[1].name = SCALE
    /\ PointParameter(parameters, LABELS).data.v[1] = StrV(UnableToReadValue)

(***************************************************************************)
(* The parameter objects used without a file: a C3DFile whose parameter    *)
(* list holds the one group POINT, the parameters of which are created by  *)
(* addNewProperty (so without a data type and without data) and changed    *)
(* through setDataType, setData and clear.                                 *)
(***************************************************************************)
MaxParams == 2

ParameterNames == {LABELS, SCALE}

GroupNames == {POINT, SCALE}

DataTypes == {TString, TByte, TInterger, TFloatingPoint}

\* the values handed to setData
DataValues ==
    {None, IntV(1), IntV(300), StrV(<<65>>), Flt(1, 0), ListV(<<>>),
     ListV(<<StrV(<<65>>), IntV(1)>>)}

ObjectOp(op, ok, val, e) == [op |-> op, arg |-> 0, ok |-> ok, val |-> val, err |-> e]

\* Parameter.clear
Clear(prm) == [prm EXCEPT !.data = None]

\* C3DFile.getParameter: the parameter, or the AttributeError
GetParameter(params, parameterGroup, parameterProperty) ==
    LET g == GetParameterGroup(params, parameterGroup)
    IN  IF g = 0 THEN Fail("AttributeError")
        ELSE LET prm == GetParameterOf(params[g], parameterProperty)
             IN  IF prm = None THEN Fail("AttributeError") ELSE Ok(prm)

\* C3DFile.getParameterValue
GetParameterValue(params, parameterGroup, parameterProperty) ==
    LET r == GetParameter(params, parameterGroup, parameterProperty)
    IN  IF r.ok THEN Ok(r.val.data) ELSE r

ObjectInit ==
    /\ file = NoFile
    /\ pc = "object"
    /\ err = "none"
    /\ handle = "none"
    /\ pos = 0
    /\ processorType = Unset
    /\ header = NewHeader
    /\ parameters = <<NewParameterGroup(POINT, 1)>>
    /\ markers = <<>>
    /\ data = <<>>
    /\ threads = <<>>
    /\ joined = 0
    /\ bulkReads = 0
    /\ lastOp = NoOp

ObjectUnchanged ==
    UNCHANGED <<file, pc, err, handle, pos, processorType, header, markers,
                data, threads, joined, bulkReads>>

\* group.addNewProperty(name)
AddNewPropertyCall(name) ==
    /\ pc = "object"
    /\ Len(parameters[1].params) < MaxParams
    /\ parameters' = AddNewProperty(parameters, 1, name)
    /\ lastOp' = ObjectOp("addNewProperty", TRUE, <<>>, "none")
    /\ ObjectUnchanged

\* setDataType(newValue) on the i-th parameter created
SetDataTypeCall(i, newValue) ==
    /\ pc = "object"
    /\ i \in 1..Len(parameters[1].params)
    /\ LET r == SetDataType(parameters[1].params[i], newValue)
       IN  /\ parameters' = [parameters EXCEPT ![1].params[i] = r.prm]
           /\ lastOp' = ObjectOp("setDataType", r.ok, <<>>, r.err)
    /\ ObjectUnchanged

\* setData(newData) on the i-th parameter created
SetDataCall(i, newData) ==
    /\ pc = "object"
    /\ i \in 1..Len(parameters[1].params)
    /\ LET r == SetData(parameters[1].params[i], newData)
       IN  /\ parameters' = [parameters EXCEPT ![1].params[i] = r.prm]
           /\ lastOp' = ObjectOp("setData", r.ok, <<>>, r.err)
    /\ ObjectUnchanged

\* clear() on the i-th parameter created
ClearCall(i) ==
    /\ pc = "object"
    /\ i \in 1..Len(parameters[1].params)
    /\ parameters' = [parameters EXCEPT ![1].params[i] = Clear(@)]
    /\ lastOp' = [ObjectOp("clear", TRUE, <<>>, "none") EXCEPT !.arg = i]
    /\ ObjectUnchanged

\* group.getParameter(name)
GetParameterOfCall(name) ==
    /\ pc = "object"
    /\ lastOp' = [ObjectOp("ParameterGroup.getParameter", TRUE,
                           <<GetParameterOf(parameters[1], name)>>, "none")
                    EXCEPT !.arg = name]
    /\ UNCHANGED parameters
    /\ ObjectUnchanged

\* c3d.getParameter(group, name)
GetParameterCall(group, name) ==
    /\ pc = "object"
    /\ LET r == GetParameter(parameters, group, name)
       IN  lastOp' = [ObjectOp("getParameter", r.ok,
                               IF r.ok THEN <<r.val>> ELSE <<>>, r.err)
                        EXCEPT !.arg = name]
    /\ UNCHANGED parameters
    /\ ObjectUnchanged

\* c3d.getParameterValue(group, name)
GetParameterValueCall(group, name) ==
    /\ pc = "object"
    /\ LET r == GetParameterValue(parameters, group, name)
       IN  lastOp' = [ObjectOp("getParameterValue", r.ok,
                               IF r.ok THEN <<r.val>> ELSE <<>>, r.err)
                        EXCEPT !.arg = name]
    /\ UNCHANGED parameters
    /\ ObjectUnchanged

ObjectNext ==
    \/ \E name \in ParameterNames : AddNewPropertyCall(name)
    \/ \E i \in 1..MaxParams, t \in DataTypes : SetDataTypeCall(i, t)
    \/ \E i \in 1..MaxParams, v \in DataValues : SetDataCall(i, v)
    \/ \E i \in 1..MaxParams : ClearCall(i)
    \/ \E name \in ParameterNames : GetParameterOfCall(name)
    \/ \E group \in GroupNames, name \in ParameterNames : GetParameterCall(group, name)
    \/ \E group \in GroupNames, name \in ParameterNames :
           GetParameterValueCall(group, name)

SpecObject == ObjectInit /\ [][ObjectNext]_vars

\* x is a value of the data kind t
IsOfKind(x, t) ==
    IF t = TString THEN x.k = "str"
    ELSE IF t = TByte \/ t = TInterger THEN x.k = "int"
    ELSE IF t = TFloatingPoint THEN x.k \in {"int", "float"}
    ELSE FALSE

\* x, every element of x when x is a sequence, is of the data kind t
AllOfKind(x, t) ==
    IF x.k = "list" THEN \A i \in 1..Len(x.v) : IsOfKind(x.v[i], t)
    ELSE IsOfKind(x, t)

\* C16: in every state reached by addNewProperty, setDataType, setData and
\* clear, a parameter that has both a data kind and a value has a value
\* (every element of it when it is a sequence) of that kind.
C16_ValueIsOfAssignedKind ==
    pc = "object" =>
        \A i \in 1..Len(parameters[1].params) :
            LET prm == parameters[1].params[i]
            IN  (prm.dataType # None /\ prm.data # None)
                    => AllOfKind(prm.data, prm.dataType.v)

\* the last parameter of the group with that name, None if there is none
LastNamed(group, name) ==
    LET s == {i \in 1..Len(group.params) : group.params[i].name = name}
    IN  IF s = {} THEN None
        ELSE group.params[CHOOSE i \in s : \A j \in s : j <= i]

\* C17: a lookup by name in the group POINT (ParameterGroup.getParameter,
\* C3DFile.getParameter, C3DFile.getParameterValue) returns the parameter of
\* that name that was added last, or its value.
C17_LastWriteWins ==
    (/\ pc = "object"
     /\ lastOp.op \in {"ParameterGroup.getParameter", "getParameter",
                       "getParameterValue"}
     /\ lastOp.ok) =>
        LET last == LastNamed(parameters[1], lastOp.arg)
        IN  last # None =>
                lastOp.val = IF lastOp.op = "getParameterValue"
                             THEN <<last.data>> ELSE <<last>>

(***************************************************************************)
(* The samples of the data block and the positions decoded from them.      *)
(***************************************************************************)

\* the word of type dataType stored for channel c of marker m in the stored
\* frame fr (all from 0)
RawSample(f, h, dataType, fr, m, c) ==
    UnpackLE(dataType,
             ReadBytes(f, (h.dataStart - 1) * BlockSize
                          + ((fr * h.markerCount + m) * 4 + c) * TypeSize(dataType),
                       TypeSize(dataType)))

\* rawInt * scale
Product(rawInt, scale) ==
    IF scale.k = "int" THEN IntV(rawInt * scale.v) ELSE Flt(rawInt * scale.m, scale.e)

\* the positions decoded by a load: marker (from 1), stored frame (from 1)
DecodedPositions ==
    {mf \in (1..Len(markers)) \X (1..(MaxFrames + 2)) :
        mf[2] <= Len(markers[mf[1]].data)}

\* C18: after a load, every coordinate of every decoded position is, when
\* POINT/SCALE < 0, the 32-bit float stored for it in the data block and,
\* when POINT/SCALE >= 0, the 16-bit integer stored for it times SCALE,
\* whatever the header's scaleFactor is.
C18_ScaleSelectsEncoding ==
    pc = "loaded" =>
        \A mf \in DecodedPositions :
            LET position == markers[mf[1]].data[mf[2]]
                scale    == PointParameter(parameters, SCALE).data
            IN  position # None =>
                    \A c \in 1..3 :
                        position.v[c] =
                            IF scale.k = "float" /\ scale.sp = "fin" /\ scale.m < 0
                            THEN RawSample(file, header, "f", mf[2] - 1, mf[1] - 1, c - 1)
                            ELSE Product(RawSample(file, header, "h",
                                                   mf[2] - 1, mf[1] - 1, c - 1),
                                         scale)

\* a file with SCALE = 2, and a header scaleFactor of -1, is loaded and a
\* position with coordinates is decoded from its 16-bit integers
C18_Witness ==
    /\ pc = "loaded"
    /\ file.meta.kind = "scaled"
    /\ IsNegative(header.scaleFactor)
    /\ ~IsNegative(PointParameter(parameters, SCALE).data)
    /\ \E mf \in DecodedPositions : markers[mf[1]].data[mf[2]] # None

\* C19: after a load, for every marker and decoded frame, getPosition is
\* None exactly when the x, y, z decoded from the data block are all zero,
\* whatever the residual is, and is otherwise a position with those x, y, z.
C19_AbsentIffAllZero ==
    pc = "loaded" =>
        \A mf \in DecodedPositions :
            LET position == GetPosition(markers[mf[1]], mf[2] - 1)
                xyz == StoredSample(file, header,
                                    PointParameter(parameters, SCALE).data,
                                    mf[2] - 1, mf[1] - 1)
            IN  /\ position = None
                      <=> (IsZero(xyz[1]) /\ IsZero(xyz[2]) /\ IsZero(xyz[3]))
                /\ position # None => SubSeq(position.v, 1, 3) = xyz

\* a load has decoded an absent position from a sample whose x, y, z are
\* zero and whose residual is not, and a position from another sample
C19_Witness ==
    /\ pc = "loaded"
    /\ \E mf \in DecodedPositions : GetPosition(markers[mf[1]], mf[2] - 1) # None
    /\ IsNegative(PointParameter(parameters, SCALE).data)
    /\ \E mf \in DecodedPositions :
          /\ GetPosition(markers[mf[1]], mf[2] - 1) = None
          /\ ~IsZero(RawSample(file, header, "f", mf[2] - 1, mf[1] - 1, 3))

(***************************************************************************)
(* C3DFile.iterFrame.  The generator is lastOp: its arguments, the frames  *)
(* it has yielded and whether it is still alive; any other call drops it.  *)
(* An argument left out is None.                                           *)
(***************************************************************************)
\* a or b of Python, for a an int or None
OrElse(a, b) == IF a = None \/ a.v = 0 THEN b ELSE a.v

\* range(first, last, step) for step > 0
Range(first, last, step) ==
    [i \in 1..(IF last > first THEN (last - first + step - 1) \div step ELSE 0) |->
        first + (i - 1) * step]

\* the frame numbers the generator goes through
IterFrames(h, start, end, iterJump) ==
    Range(OrElse(start, h.firstFrame), OrElse(end, h.lastFrame + 1), iterJump)

\* the files loaded before iterating: one marker, every frame range
IterFiles ==
    {NoFile}
    \cup {f \in MarkerFiles : f.meta.kind = "labels" /\ f.meta.fields.markerCount = 1}

IterStarts == {None, IntV(0), IntV(1)}

IterEnds == {None, IntV(0), IntV(2)}

IterJumps == {1, 2}

\* g = c3d.iterFrame(start, end, iterJump): nothing runs yet
IterFrameCall(start, end, iterJump) ==
    /\ Callable
    /\ lastOp' = [op |-> "iterFrame", arg |-> <<start, end, iterJump>>,
                  ok |-> TRUE, val |-> <<>>, err |-> "none"]
    /\ UNCHANGED <<file, pc, err, handle, pos, processorType, header, parameters,
                   markers, data, threads, joined, bulkReads>>

\* next(g): one more readFrame, or the end of the generator
NextFrame ==
    /\ Callable
    /\ lastOp.op = "iterFrame"
    /\ lastOp.ok
    /\ LET frames == IterFrames(header, lastOp.arg[1], lastOp.arg[2], lastOp.arg[3])
           k == Len(lastOp.val) + 1
       IN  IF k > Len(frames)
           THEN lastOp' = [lastOp EXCEPT !.ok = FALSE, !.err = "StopIteration"]
           ELSE LET r == ReadFrame(header, markers, frames[k])
                IN  IF r.ok
                    THEN lastOp' = [lastOp EXCEPT !.val = Append(@, r.val)]
                    ELSE lastOp' = [lastOp EXCEPT !.ok = FALSE, !.err = r.err]
    /\ UNCHANGED <<file, pc, err, handle, pos, processorType, header, parameters,
                   markers, data, threads, joined, bulkReads>>

IterNext ==
    \/ \E f \in IterFiles : LoadFile(f)
    \/ ReadHeaderStep
    \/ ReadParametersStep
    \/ ReadParamBlockStep
    \/ ReadMarkersStep
    \/ StartThread
    \/ \E i \in 1..Len(threads) : Worker(i)
    \/ JoinThread
    \/ ReadMarkersReturn
    \/ CloseFile
    \/ Reset
    \/ \E start \in IterStarts, end \in IterEnds, iterJump \in IterJumps :
           IterFrameCall(start, end, iterJump)
    \/ NextFrame

SpecIter == Init /\ [][IterNext]_vars

\* the k-th frame number (from 1) of start, start + step, ..., where an
\* argument left out stands for the header's firstFrame and lastFrame + 1
FrameAsked(k) ==
    (IF lastOp.arg[1] = None THEN header.firstFrame ELSE lastOp.arg[1].v)
    + (k - 1) * lastOp.arg[3]

EndAsked == IF lastOp.arg[2] = None THEN header.lastFrame + 1 ELSE lastOp.arg[2].v

\* C20: the generator of iterFrame(start, end, step) has yielded
\* readFrame(f) for f = start, start + step, ... in order, each f < end; it
\* ends when the next f is not below end and raises when readFrame(f) does.
C20_IterFrameYieldsRange ==
    lastOp.op = "iterFrame" =>
        /\ \A k \in 1..Len(lastOp.val) :
              /\ FrameAsked(k) < EndAsked
              /\ ReadFrame(header, markers, FrameAsked(k)).ok
              /\ lastOp.val[k] = ReadFrame(header, markers, FrameAsked(k)).val
        /\ lastOp.err = "StopIteration"
              => FrameAsked(Len(lastOp.val) + 1) >= EndAsked
        /\ lastOp.err = "FrameOutOfRange"
              => /\ FrameAsked(Len(lastOp.val) + 1) < EndAsked
                 /\ ~ReadFrame(header, markers, FrameAsked(Len(lastOp.val) + 1)).ok

(***************************************************************************)
(* C3DFile.addMarker and removeMarker, between loads.                      *)
(***************************************************************************)
MaxAdded == 1

MarkerNamesGiven == {StrV(<<65>>), StrV(<<66>>)}

\* C3DFile.getMarker: the index of the first marker of that name, 0 for None
GetMarker(mk, markerName) == FirstNamed(mk, markerName, 1)

\* C3DFile.addMarker
AddMarker(mk, markerName) == Append(mk, NewMarker(markerName))

\* C3DFile.removeMarker
RemoveMarker(mk, markerName) ==
    LET i == GetMarker(mk, markerName)
    IN  IF i = 0 THEN mk
        ELSE SubSeq(mk, 1, i - 1) \o SubSeq(mk, i + 1, Len(mk))

AddMarkerCall(markerName) ==
    /\ Callable
    /\ Len(markers) < MaxMarkers + MaxAdded
    /\ markers' = AddMarker(markers, markerName)
    /\ lastOp' = [op |-> "addMarker", arg |-> 0, ok |-> TRUE, val |-> <<>>,
                  err |-> "none"]
    /\ UNCHANGED <<file, pc, err, handle, pos, processorType, header, parameters,
                   data, threads, joined, bulkReads>>

RemoveMarkerCall(markerName) ==
    /\ Callable
    /\ markers' = RemoveMarker(markers, markerName)
    /\ lastOp' = [op |-> "removeMarker", arg |-> 0, ok |-> TRUE, val |-> <<>>,
                  err |-> "none"]
    /\ UNCHANGED <<file, pc, err, handle, pos, processorType, header, parameters,
                   data, threads, joined, bulkReads>>

EditNext ==
    \/ \E f \in IterFiles : LoadFile(f)
    \/ ReadHeaderStep
    \/ ReadParametersStep
    \/ ReadParamBlockStep
    \/ ReadMarkersStep
    \/ StartThread
    \/ \E i \in 1..Len(threads) : Worker(i)
    \/ JoinThread
    \/ ReadMarkersReturn
    \/ CloseFile
    \/ Reset
    \/ \E markerName \in MarkerNamesGiven : AddMarkerCall(markerName)
    \/ \E markerName \in MarkerNamesGiven : RemoveMarkerCall(markerName)
    \/ \E n \in FrameNumbers : ReadFrameCall(n)

SpecEdit == Init /\ [][EditNext]_vars

\* C21: after a successful load of a file with labels and any addMarker and
\* removeMarker calls, getMarkerCount() is the number of markers of
\* getMarkers(), and a readFrame that returns has one entry per marker
\* counted by getMarkerCount().
C21_MarkerCountFollowsEdits ==
    (pc = "loaded" /\ HasLabels(parameters)) =>
        /\ GetMarkerCount(header) = Len(markers)
        /\ (lastOp.op = "readFrame" /\ lastOp.ok)
               => Len(lastOp.val) = GetMarkerCount(header)

\* C22: every step of the parameter walk that goes on to another record
\* leaves the cursor further in the file than it found it, so that no
\* record is visited twice and the walk of a finite file ends; and a walk
\* that finds the cursor at the end of the file ends without failing the
\* load.
C22_WalkTerminates ==
    [][ pc = "walk" =>
           /\ pc' = "walk" => pos' > pos
           /\ pos >= file.len => pc' = "markers" ]_vars

\* the record at p ends the block: its name length is 0, or its bytesToNext
\* is there and is 0
EndsBlock(f, p, procType) ==
    /\ p < f.len
    /\ \/ Signed8(ByteAt(f, p)) = 0
       \/ /\ RecordStart(f, p) + 2 <= f.len
          /\ Decode(ReadBytes(f, p + 2, Abs(Signed8(ByteAt(f, p))))).ok
          /\ BytesToNext(f, p, procType) = 0

\* C23: the walker's step on a record with a name length of 0 or a
\* bytesToNext of 0 ends the walk without an error and leaves the groups
\* and their parameters as they were; and in the rest of the load, after
\* the walk, the groups and parameters do not change either.
C23_EndRecordStopsWalk ==
    [][ /\ (pc = "walk" /\ EndsBlock(file, pos, processorType))
            => (pc' = "markers" /\ err' = "none" /\ parameters' = parameters)
        /\ pc \in {"markers", "spawn", "join", "close"}
            => parameters' = parameters ]_vars

\* the walk has ended on a record with a name and a bytesToNext of 0; the
\* record after it, SCALE, is not decoded
C23_Witness ==
    /\ pc = "markers"
    /\ file.meta.kind = "zeronext"
    /\ PointParameter(parameters, LABELS) # None
    /\ PointParameter(parameters, SCALE) = None
    /\ PointParameter(parameters, <<88>>) = None

\* the id on disk of the record at p
IdOfRecord(f, p) == Signed8(ByteAt(f, p + 1))

\* the index of the decoded group with that id, 0 if there is none
GroupWithId(params, id) ==
    IF \E i \in 1..Len(params) : params[i].groupId = id
    THEN CHOOSE i \in 1..Len(params) : params[i].groupId = id
    ELSE 0

IsParameterRecord(f, p, procType, params) ==
    /\ ~EndsBlock(f, p, procType)
    /\ RecordStart(f, p) + 4 <= f.len
    /\ Decode(ReadBytes(f, p + 2, Abs(Signed8(ByteAt(f, p))))).ok
    /\ GroupWithId(params, Abs(IdOfRecord(f, p))) # 0

TypeOfRecord(f, p) == Signed8(ByteAt(f, RecordStart(f, p) + 2))

DimensionsOfRecord(f, p) == Signed8(ByteAt(f, RecordStart(f, p) + 3))

\* the i-th scalar (from 1) of type t after the dimension count, in the
\* byte order of Intel
ScalarOfRecord(f, p, t, i) ==
    LET at == RecordStart(f, p) + 4 + (i - 1) * t
    IN  IF t = TByte THEN IntV(Signed8(ByteAt(f, at)))
        ELSE IF t = TInterger THEN IntV(UnpackLE("h", ReadBytes(f, at, 2)))
        ELSE UnpackLE("f", ReadBytes(f, at, 4))

\* C25: the walker's step on a parameter record of an Intel file with data
\* type Byte, Int16 or Float32 whose d scalars are in the file stores a
\* parameter of that type, with the one scalar when d = 0 and with the
\* sequence of the d consecutive scalars when d > 0; on a record of a data
\* type other than -1, 1, 2, 4 it fails with UnknownDataType.
C25_TypedValues ==
    [][ (/\ pc = "walk"
         /\ processorType = INTEL
         /\ IsParameterRecord(file, pos, processorType, parameters)) =>
           LET t == TypeOfRecord(file, pos)
               d == DimensionsOfRecord(file, pos)
           IN  /\ (/\ t \in {TByte, TInterger, TFloatingPoint}
                   /\ d >= 0
                   /\ RecordStart(file, pos) + 4 + (IF d = 0 THEN 1 ELSE d) * t
                          <= file.len)
                      => /\ pc' = "walk"
                         /\ LastParameter(parameters', file, pos).dataType = IntV(t)
                         /\ LastParameter(parameters', file, pos).data =
                               IF d = 0 THEN ScalarOfRecord(file, pos, t, 1)
                               ELSE ListV([i \in 1..d |->
                                             ScalarOfRecord(file, pos, t, i)])
               /\ t \notin {TString, TByte, TInterger, TFloatingPoint}
                      => (pc' = "failed" /\ err' = "UnknownDataType") ]_vars

\* the frames a load decodes
FramesDecoded(h) == h.lastFrame - h.firstFrame

\* the four words of the buffer for marker m and frame fr (both from 0)
WordsOf(buf, h, fr, m) ==
    [c \in 1..4 |-> buf[fr * h.markerCount * 4 + m * 4 + c]]

\* C26: when the workers of a load are done, the sample buffer holds
\* (lastFrame - firstFrame) * markerCount * 4 words, every marker's series
\* has the keys 0 .. lastFrame - firstFrame - 1, and its entry for key f is
\* made of the words f*markerCount*4 + m*4 .. + 3 of the buffer and of no
\* others (None when the first three of them are zero).
C26_SeriesFromBuffer ==
    /\ (pc = "join" /\ joined = Len(threads)) =>
          /\ Len(data) = FramesDecoded(header) * header.markerCount * 4
          /\ \A m \in 1..Len(markers) :
                /\ Len(markers[m].data) = FramesDecoded(header)
                /\ \A fr \in 1..FramesDecoded(header) :
                      LET w == WordsOf(data, header, fr - 1, m - 1)
                      IN  markers[m].data[fr] =
                              IF IsZero(w[1]) /\ IsZero(w[2]) /\ IsZero(w[3])
                              THEN None ELSE Vec(w)
    /\ pc = "loaded" =>
          \A m \in 1..Len(markers) : Len(markers[m].data) = FramesDecoded(header)

\* the workers of two markers are done with a buffer of two frames or more
C26_Witness ==
    /\ pc = "join"
    /\ joined = Len(threads)
    /\ Len(markers) = 2
    /\ FramesDecoded(header) >= 2
    /\ \E fr \in 1..FramesDecoded(header) : markers[2].data[fr] # None

\* C27: a step of the worker of marker i leaves the sample buffer and
\* every other marker as they are and changes of its own marker only the
\* series; _readMarkers returns only when every worker is done and every
\* marker has the series that processMarkerData makes of the buffer for it,
\* whatever the order in which the workers were started and ran.
C27_WorkersAreIndependent ==
    [][ /\ \A i \in 1..Len(threads) :
              (Len(threads') = Len(threads) /\ threads'[i] # threads[i]) =>
                  /\ data' = data
                  /\ markers'[i].name = markers[i].name
                  /\ \A j \in 1..Len(markers) : j # i => markers'[j] = markers[j]
        /\ (pc = "join" /\ pc' = "close") =>
              /\ Len(threads) = Len(markers)
              /\ \A m \in 1..Len(markers) :
                    /\ threads[m] = "done"
                    /\ markers'[m].data
                           = ProcessMarkerData(data, m - 1, GetMarkerCount(header))
        /\ (pc = "close" \/ (pc = "loaded" /\ pc' = "loaded"))
              => markers' = markers ]_vars

\* the worker of the second marker is done before the worker of the first,
\* while the first still runs
C27_Witness ==
    /\ Len(threads) = 2
    /\ threads[1] = "running"
    /\ threads[2] = "done"
    /\ markers[1].data = <<>>
    /\ markers[2].data # <<>>

\* the processor type that the byte at (P - 1) * 512 + 3 stands for
ProcessorInFile(f, P) ==
    LET b == ByteAt(f, (P - 1) * BlockSize + 3)
    IN  IF b = 84 THEN INTEL ELSE IF b = 85 THEN DEC ELSE IF b = 86 THEN MIPS
        ELSE Unset

\* the header words of f read as little-endian
LittleEndianHeader(f) ==
    [markerCount |-> UnpackLE("h", ReadBytes(f, 2, 2)),
     analogMesasurements |-> UnpackLE("h", ReadBytes(f, 4, 2)),
     firstFrame |-> UnpackLE("h", ReadBytes(f, 6, 2)),
     lastFrame |-> UnpackLE("h", ReadBytes(f, 8, 2)),
     maxFrameGap |-> UnpackLE("h", ReadBytes(f, 10, 2)),
     scaleFactor |-> UnpackLE("f", ReadBytes(f, 12, 4)),
     dataStart |-> UnpackLE("h", ReadBytes(f, 16, 2)),
     sampleRate |-> UnpackLE("h", ReadBytes(f, 18, 2)),
     frameRate |-> UnpackLE("f", ReadBytes(f, 20, 4))]

\* C28: once the header is read, and again once the parameter block is
\* entered, and from then on to the end of the load, the reader's and the
\* header's processor type are the one that the byte at (P - 1) * 512 + 3
\* stands for (84 Intel, 85 DEC, 86 MIPS, else unset); with the type unset
\* the header words are those of the file read as little-endian, a
\* parameter record's Int16 values are too, and no load fails with
\* UnsupportedProcessorType.
C28_ProcessorTypeFromByte ==
    /\ err # "UnsupportedProcessorType"
    /\ pc \in {"params", "walk", "markers", "spawn", "join", "close", "loaded"} =>
          /\ processorType = ProcessorInFile(file, header.parameterBlock)
          /\ header.processorType = processorType
          /\ processorType = Unset =>
                \A name \in DOMAIN LittleEndianHeader(file) :
                    header[name] = LittleEndianHeader(file)[name]
    /\ (pc = "loaded" /\ processorType = Unset /\ file.meta.kind = "typed") =>
          PointParameter(parameters, <<88>>).data
              = ListV(<<IntV(UnpackLE("h", <<0, 0>>)), IntV(UnpackLE("h", <<128, 63>>))>>)

\* a file whose processor byte is 0 has been loaded with its parameters,
\* a 16-bit bytesToNext and a float SCALE among them, and its samples
C28_Witness ==
    /\ pc = "loaded"
    /\ processorType = Unset
    /\ ByteAt(file, (header.parameterBlock - 1) * BlockSize + 3) = 0
    /\ Len(markers) = 1
    /\ PointParameter(parameters, SCALE) # None

\* C29: after clear() on a parameter, its data and its data type are both
\* unset.
C29_ClearUnsetsTypeAndData ==
    (pc = "object" /\ lastOp.op = "clear") =>
        /\ parameters[1].params[lastOp.arg].data = None
        /\ parameters[1].params[lastOp.arg].dataType = None

\* C30: a setData or setDataType call that fails leaves every parameter's
\* value and data type as they were before the call.
C30_FailedCallChangesNothing ==
    [][ (/\ pc = "object"
         /\ lastOp'.op \in {"setData", "setDataType"}
         /\ ~lastOp'.ok) => parameters' = parameters ]_vars

\* setData has failed on the one parameter there is, which holds a data
\* type and a value
C30_Witness ==
    /\ pc = "object"
    /\ lastOp.op = "setData"
    /\ ~lastOp.ok
    /\ Len(parameters[1].params) = 1
    /\ parameters[1].params[1].dataType # None
    /\ parameters[1].params[1].data # None

====
